---------------------------- MODULE Spec2Model ----------------------------
(***************************************************************************)
(* Streaming protocol normalization layer of indusagi:                     *)
(*   - EventStream / AssistantMessageEventStream (ai/utils/event-stream)   *)
(*   - executeWithRetry / normalizeProviderError (providers/simple-options)*)
(*   - the provider stream functions (anthropic, openai-responses,         *)
(*     bedrock, kimi): request under the retry executor, wire loop,        *)
(*     terminal transition                                                 *)
(*   - transformMessages (providers/transform-messages)                    *)
(* One specification per subsystem; the variables of the subsystems a      *)
(* specification does not exercise stay at their initial values.           *)
(***************************************************************************)
EXTENDS Integers, Sequences, FiniteSets, TLC

VARIABLES
    \* ---- EventStream fields
    queue,          \* private queue: T[]
    waiting,        \* private waiting: resolvers, here the iterator each belongs to
    done,           \* private done
    finalResult,    \* finalResultPromise: <<>> while pending, <<r>> once resolved
    history,        \* private history: T[]
    historyLimit,   \* options.historyLimit (0: none given)
    \* ---- the iterators over the stream (one generator instance each)
    iter,           \* position of each generator
    handed,         \* the IteratorResult a resolved waiter promise carries
    yielded,        \* what each iterator has yielded so far, in order
    \* ---- bookkeeping of the stream's callers
    accepted,       \* events pushed while the stream was not done, in push order
    pushCount,      \* number of push() calls made
    ended,          \* whether end() has been called
    \* ---- executeWithRetry: its policy, locals and what it did
    policy,         \* RetryPolicy: maxAttempts, baseDelayMs, maxDelayMs (0: absent), shouldRetry
    rpc,            \* position inside executeWithRetry
    attempt,        \* let attempt
    lastError,      \* let lastError: <<>> while undefined
    opCalls,        \* number of invocations of operation()
    failures,       \* the errors operation() rejected with, in order
    delays,         \* the backoff delays taken, in order
    thrown,         \* the error executeWithRetry rejected with: <<>> or <<e>>
    \* ---- transformMessages: a call and the call on its own output
    messages,       \* the message list handed to transformMessages
    normalizer,     \* the normalizeToolCallId argument
    transformed,    \* <<>> or <<the list the first call returned>>
    retransformed,  \* <<>> or <<the list the call on that output returned>>
    \* ---- a call of a provider stream function
    adapter,        \* which stream function was called
    hasSignal,      \* whether options.signal is given
    aborted,        \* signal.aborted
    abortedAtEntry, \* signal.aborted as it was when executeWithRetry was called
    cpc,            \* position inside the function handed to the stream handler
    output,         \* const output: AssistantMessage
    wireCount,      \* number of wire items the loop has handled
    \* ---- filter / map views and resultWithTimeout of the stream
    view,           \* what each iterator is: the stream itself, a filter or a map view
    viewYielded,    \* what each iterator has yielded to its consumer, in order
    timer,          \* the timer of resultWithTimeout
    timedResult,    \* the promise resultWithTimeout returned: <<>> while not called
    \* ---- a call of parseStreamingJsonWithDiagnostics
    parseInput,     \* partialJson: <<>> for undefined, else <<the text>>
    parseOptions,   \* options
    partialOutcome, \* what the partial-json parser does with the input
    parseResult,    \* <<>> or <<the result returned>>
    \* ---- a ProviderRegistry
    registry,       \* the Map, as its entries in insertion order
    now,            \* Date.now()
    lastUnregistered, \* <<s>> when the last call was unregisterBySource(s), else <<>>
    invoked,        \* <<>> or <<the outcome of the last call of a registered provider>>
    \* ---- the wire event loop of a provider stream function
    wire,           \* the call: its output message, the events it pushed, its position
    \* ---- a StreamingStateManager
    mgr,            \* the manager's fields and the output message it writes to
    \* ---- a call of a pure function
    fnArgs,         \* the arguments
    fnResult,       \* <<>> or <<the value returned>>
    \* ---- an Agent
    agent           \* the Agent's fields, the promises it made and its calls

streamVars == <<queue, waiting, done, finalResult, history, historyLimit,
                iter, handed, yielded, accepted, pushCount, ended>>
retryVars == <<policy, rpc, attempt, lastError, opCalls, failures, delays, thrown>>
xformVars == <<messages, normalizer, transformed, retransformed>>
callVars == <<adapter, hasSignal, aborted, abortedAtEntry, cpc, output, wireCount>>
viewVars == <<view, viewYielded>>
timeoutVars == <<timer, timedResult>>
parseVars == <<parseInput, parseOptions, partialOutcome, parseResult>>
registryVars == <<registry, now, lastUnregistered, invoked>>
auxVars == <<wire, mgr, fnArgs, fnResult, agent>>
vars == <<streamVars, retryVars, xformVars, callVars, viewVars, timeoutVars, parseVars,
         registryVars, auxVars>>

-----------------------------------------------------------------------------
(* Bounds *)
MaxPush == 3
NumIter == 2
MaxWire == 3

Iterators == 1..NumIter
HistoryLimits == {0, 1, 2}
\* the message object an event carries: each terminal event its own, told
\* apart by the number of the push() call that carried it
Message(n) == [message |-> n]
EventTypes == {"text_delta", "done", "error"}

-----------------------------------------------------------------------------
(* EventStream *)

\* AssistantMessageEventStream: isComplete
isComplete(event) == event.type = "done" \/ event.type = "error"

\* AssistantMessageEventStream: extractResult (event.message / event.error)
extractResult(event) == event.payload

\* a final result that every resolution overwrites
resolveFinalResult_overwrite(cur, r) == <<r>>

\* resolveFinalResult: a promise settles once, later resolutions are ignored
resolveFinalResult(cur, r) == IF cur = <<>> THEN <<r>> ELSE cur

\* a pushHistory that drops the new event once the limit is reached
pushHistory_evictNewest(h, event, limit) ==
    IF limit > 0 /\ Len(h) >= limit THEN h ELSE Append(h, event)

\* pushHistory: append, then evict the oldest beyond the limit
pushHistory(h, event, limit) ==
    LET h1 == Append(h, event)
    IN  IF limit > 0 /\ Len(h1) > limit
        THEN SubSeq(h1, Len(h1) - limit + 1, Len(h1))
        ELSE h1

\* getHistory()
getHistory == history

\* the fields of the stream and the state of the iterators attached to it
StreamState ==
    [queue |-> queue, waiting |-> waiting, done |-> done, finalResult |-> finalResult,
     history |-> history, iter |-> iter, handed |-> handed, accepted |-> accepted,
     ended |-> ended]

SetStream(S) ==
    /\ queue' = S.queue
    /\ waiting' = S.waiting
    /\ done' = S.done
    /\ finalResult' = S.finalResult
    /\ history' = S.history
    /\ iter' = S.iter
    /\ handed' = S.handed
    /\ accepted' = S.accepted
    /\ ended' = S.ended

\* the second half of push(): hand the event to the first waiter, or queue it
deliver(S, event) ==
    IF S.waiting # <<>>
    THEN [S EXCEPT !.waiting = Tail(S.waiting),
                   !.handed[Head(S.waiting)] = [value |-> <<event>>, done |-> FALSE],
                   !.iter[Head(S.waiting)] = "resumed"]
    ELSE [S EXCEPT !.queue = Append(S.queue, event)]

\* the first half of push(): history, completion and the final result
record(S, event) ==
    LET S1 == [S EXCEPT !.history = pushHistory(S.history, event, historyLimit),
                        !.accepted = Append(S.accepted, event)]
    IN  IF isComplete(event)
        THEN [S1 EXCEPT !.done = TRUE,
                        !.finalResult = resolveFinalResult(S.finalResult, extractResult(event))]
        ELSE S1

\* push() that also buffers an event it has handed to a waiting consumer
push_alsoQueued(S, event) ==
    IF S.done THEN S
    ELSE LET S1 == deliver(record(S, event), event)
         IN  IF S.waiting # <<>> THEN [S1 EXCEPT !.queue = Append(S1.queue, event)] ELSE S1

\* push() without the early return on a finished stream
push_noDoneCheck(S, event) == deliver(record(S, event), event)

\* EventStream.push(event)
push(S, event) ==
    IF S.done THEN S ELSE deliver(record(S, event), event)

\* an end() that releases the first waiting consumer only
end_releasesFirstOnly(S, r) ==
    LET released == IF S.waiting = <<>> THEN {} ELSE {Head(S.waiting)}
    IN  [S EXCEPT !.done = TRUE,
                  !.ended = TRUE,
                  !.finalResult = IF r # <<>> THEN resolveFinalResult(S.finalResult, r[1])
                                  ELSE S.finalResult,
                  !.waiting = IF S.waiting = <<>> THEN <<>> ELSE Tail(S.waiting),
                  !.handed = [c \in Iterators |->
                                IF c \in released THEN [value |-> <<>>, done |-> TRUE]
                                ELSE S.handed[c]],
                  !.iter = [c \in Iterators |->
                                IF c \in released THEN "resumed" ELSE S.iter[c]]]

\* EventStream.end(result?): r is <<>> when no result is passed
end(S, r) ==
    LET released == {S.waiting[i] : i \in DOMAIN S.waiting}
    IN  [S EXCEPT !.done = TRUE,
                  !.ended = TRUE,
                  !.finalResult = IF r # <<>> THEN resolveFinalResult(S.finalResult, r[1])
                                  ELSE S.finalResult,
                  !.waiting = <<>>,
                  !.handed = [c \in Iterators |->
                                IF c \in released THEN [value |-> <<>>, done |-> TRUE]
                                ELSE S.handed[c]],
                  !.iter = [c \in Iterators |->
                                IF c \in released THEN "resumed" ELSE S.iter[c]]]

\* filter / map views: the predicate and the mapper the callers pass, as in
\* the tests (n % 2 === 1, n => `n=${n}`)
ViewKinds == {"direct", "filter", "map"}

predicate(event) == event.seq % 2 = 1

mapper(event) == <<"n=", event.seq>>

\* the loop body of a view's generator for the event its iteration of the
\* stream has just yielded: what the view has yielded afterwards
viewStep(kind, out, event) ==
    CASE kind = "direct" -> Append(out, event)
      [] kind = "filter" -> IF predicate(event) THEN Append(out, event) ELSE out
      [] kind = "map" -> Append(out, mapper(event))

\* an iterator that yields the head of the queue and leaves it there
IterNext_peek(c) ==
    IF queue # <<>>
    THEN /\ yielded' = [yielded EXCEPT ![c] = Append(@, Head(queue))]
         /\ queue' = queue
         /\ iter' = [iter EXCEPT ![c] = "idle"]
         /\ UNCHANGED <<waiting, handed>>
    ELSE IF done
    THEN /\ iter' = [iter EXCEPT ![c] = "finished"]
         /\ UNCHANGED <<queue, waiting, handed, yielded>>
    ELSE /\ waiting' = Append(waiting, c)
         /\ iter' = [iter EXCEPT ![c] = "waiting"]
         /\ UNCHANGED <<queue, handed, yielded>>

\* [Symbol.asyncIterator]: one turn of the generator's loop, from a next() call
\* up to the yield, the return, or the await of a new waiter promise
IterNext(c) ==
    IF queue # <<>>
    THEN /\ yielded' = [yielded EXCEPT ![c] = Append(@, Head(queue))]
         /\ queue' = Tail(queue)
         /\ iter' = [iter EXCEPT ![c] = "idle"]
         /\ UNCHANGED <<waiting, handed>>
    ELSE IF done
    THEN /\ iter' = [iter EXCEPT ![c] = "finished"]
         /\ UNCHANGED <<queue, waiting, handed, yielded>>
    ELSE /\ waiting' = Append(waiting, c)
         /\ iter' = [iter EXCEPT ![c] = "waiting"]
         /\ UNCHANGED <<queue, handed, yielded>>

\* the continuation after the awaited waiter promise has been resolved
IterResume(c) ==
    IF handed[c].done
    THEN /\ iter' = [iter EXCEPT ![c] = "finished"]
         /\ UNCHANGED yielded
    ELSE /\ yielded' = [yielded EXCEPT ![c] = Append(@, handed[c].value[1])]
         /\ iter' = [iter EXCEPT ![c] = "idle"]

\* new Error(`Event stream timed out after ${timeoutMs}ms`)
TimeoutError == [kind |-> "Error", message |-> "Event stream timed out"]

\* the promise resultWithTimeout returns, with whether the then-callback it
\* attached to result() has run
PendingTimedResult == [state |-> "pending", value |-> <<>>, notified |-> FALSE]

\* a timer callback that also ends the stream
onTimeout_endsStream(S, tr) ==
    [stream |-> end(S, <<>>),
     timed |-> IF tr.state = "pending"
               THEN [tr EXCEPT !.state = "rejected", !.value = <<TimeoutError>>]
               ELSE tr]

\* resultWithTimeout: the timer callback, reject(new Error(...)); a promise
\* that is already settled stays as it is
onTimeout(S, tr) ==
    [stream |-> S,
     timed |-> IF tr.state = "pending"
               THEN [tr EXCEPT !.state = "rejected", !.value = <<TimeoutError>>]
               ELSE tr]

\* resultWithTimeout: the then-callback, clearTimeout(timer); resolve(value)
onResult(tr, value) ==
    IF tr.state = "pending"
    THEN [tr EXCEPT !.state = "resolved", !.value = <<value>>, !.notified = TRUE]
    ELSE [tr EXCEPT !.notified = TRUE]

-----------------------------------------------------------------------------
(* Errors and their classification *)

\* the lower-cased substrings normalizeProviderError looks for
Keywords == {"rate", "limit", "timeout", "timed out", "network", "fetch",
             "auth", "unauthorized", "forbidden", "invalid", "schema", "validation"}

\* error messages an operation may reject with, each with the substrings of
\* Keywords its lower-cased text contains
KeywordsOf ==
    [m \in {"rate limit exceeded", "Request timed out", "network error",
            "Unauthorized", "invalid schema", "Service Unavailable",
            "Request was aborted"} |->
        CASE m = "rate limit exceeded"  -> {"rate", "limit"}
          [] m = "Request timed out"    -> {"timed out"}
          [] m = "network error"        -> {"network"}
          [] m = "Unauthorized"         -> {"auth", "unauthorized"}
          [] m = "invalid schema"       -> {"invalid", "schema"}
          [] m = "Service Unavailable"  -> {}
          [] m = "Request was aborted"  -> {}]

ErrorMessages == DOMAIN KeywordsOf

\* error messages whose lower-cased text holds substrings of more than one
\* rule of normalizeProviderError, or of none, or in capitals
MixedKeywordsOf ==
    [m \in {"Rate limit: request timed out", "rate of fetch too high",
            "Limit reached: network unreachable", "Timeout while fetching",
            "Network authentication required", "fetch failed: invalid url",
            "Forbidden: invalid api key", "Validation failed: unauthorized field",
            "Schema validation timeout", "Invalid authorization header",
            "RATE LIMIT", "Gateway Timeout", "Forbidden", "validation error",
            "limit reached", "Internal server error"} |->
        CASE m = "Rate limit: request timed out"         -> {"rate", "limit", "timed out"}
          [] m = "rate of fetch too high"                -> {"rate", "fetch"}
          [] m = "Limit reached: network unreachable"    -> {"limit", "network"}
          [] m = "Timeout while fetching"                -> {"timeout", "fetch"}
          [] m = "Network authentication required"       -> {"network", "auth"}
          [] m = "fetch failed: invalid url"             -> {"fetch", "invalid"}
          [] m = "Forbidden: invalid api key"            -> {"forbidden", "invalid"}
          [] m = "Validation failed: unauthorized field" -> {"validation", "auth", "unauthorized"}
          [] m = "Schema validation timeout"             -> {"schema", "validation", "timeout"}
          [] m = "Invalid authorization header"          -> {"invalid", "auth"}
          [] m = "RATE LIMIT"                            -> {"rate", "limit"}
          [] m = "Gateway Timeout"                       -> {"timeout"}
          [] m = "Forbidden"                             -> {"forbidden"}
          [] m = "validation error"                      -> {"validation"}
          [] m = "limit reached"                         -> {"limit"}
          [] m = "Internal server error"                 -> {}]

\* message.toLowerCase().includes(k)
includes(m, k) ==
    k \in (IF m \in DOMAIN KeywordsOf THEN KeywordsOf[m] ELSE MixedKeywordsOf[m])

\* new SimpleOptionsProviderError(message, code, cause)
SimpleOptionsProviderError(m, c) == [kind |-> "ProviderError", message |-> m, code |-> c]

\* what operation() may reject with: an Error, an already normalized
\* SimpleOptionsProviderError, or a value that is no Error
RawErrors ==
    [kind : {"Error"}, message : ErrorMessages, code : {""}]
    \cup {SimpleOptionsProviderError("quota", "rate_limit")}
    \cup {[kind |-> "value", message |-> "", code |-> ""]}

\* a classification that tests the auth rule before the network rule
normalizeProviderError_authFirst(error) ==
    IF error.kind = "ProviderError" THEN error
    ELSE IF error.kind = "Error" THEN
        LET m == error.message IN
        IF includes(m, "rate") /\ includes(m, "limit")
            THEN SimpleOptionsProviderError(m, "rate_limit")
        ELSE IF includes(m, "timeout") \/ includes(m, "timed out")
            THEN SimpleOptionsProviderError(m, "timeout")
        ELSE IF includes(m, "auth") \/ includes(m, "unauthorized") \/ includes(m, "forbidden")
            THEN SimpleOptionsProviderError(m, "auth")
        ELSE IF includes(m, "network") \/ includes(m, "fetch")
            THEN SimpleOptionsProviderError(m, "network")
        ELSE IF includes(m, "invalid") \/ includes(m, "schema") \/ includes(m, "validation")
            THEN SimpleOptionsProviderError(m, "validation")
        ELSE SimpleOptionsProviderError(m, "unknown")
    ELSE SimpleOptionsProviderError("Unknown provider error", "unknown")

normalizeProviderError(error) ==
    IF error.kind = "ProviderError" THEN error
    ELSE IF error.kind = "Error" THEN
        LET m == error.message IN
        IF includes(m, "rate") /\ includes(m, "limit")
            THEN SimpleOptionsProviderError(m, "rate_limit")
        ELSE IF includes(m, "timeout") \/ includes(m, "timed out")
            THEN SimpleOptionsProviderError(m, "timeout")
        ELSE IF includes(m, "network") \/ includes(m, "fetch")
            THEN SimpleOptionsProviderError(m, "network")
        ELSE IF includes(m, "auth") \/ includes(m, "unauthorized") \/ includes(m, "forbidden")
            THEN SimpleOptionsProviderError(m, "auth")
        ELSE IF includes(m, "invalid") \/ includes(m, "schema") \/ includes(m, "validation")
            THEN SimpleOptionsProviderError(m, "validation")
        ELSE SimpleOptionsProviderError(m, "unknown")
    ELSE SimpleOptionsProviderError("Unknown provider error", "unknown")

-----------------------------------------------------------------------------
(* executeWithRetry *)

\* the shouldRetry callbacks tried: absent, or one of three predicates
ShouldRetryKinds == {"absent", "always", "never", "firstAttemptOnly"}

shouldRetry(kind, error, att) ==
    CASE kind = "always" -> TRUE
      [] kind = "never" -> FALSE
      [] kind = "firstAttemptOnly" -> att < 2

\* a retryable set that also takes in the unclassified errors
defaultRetryable_withUnknown(normalized) ==
    normalized.code \in {"rate_limit", "timeout", "network", "unknown"}

defaultRetryable(normalized) ==
    normalized.code = "rate_limit" \/ normalized.code = "timeout" \/ normalized.code = "network"

retryable(pol, error, att) ==
    IF pol.shouldRetry # "absent"
    THEN shouldRetry(pol.shouldRetry, error, att)
    ELSE defaultRetryable(normalizeProviderError(error))

\* a backoff that ignores maxDelayMs
backoff_uncapped(pol, att) == pol.baseDelayMs * 2 ^ (att - 1)

\* Math.min(policy.baseDelayMs * 2 ** (attempt - 1), policy.maxDelayMs ?? MAX_SAFE_INTEGER)
backoff(pol, att) ==
    LET d == pol.baseDelayMs * 2 ^ (att - 1)
    IN  IF pol.maxDelayMs # 0 /\ pol.maxDelayMs < d THEN pol.maxDelayMs ELSE d

NoPolicy == [maxAttempts |-> 0, baseDelayMs |-> 0, maxDelayMs |-> 0, shouldRetry |-> "absent"]

RetryIdle ==
    /\ policy = NoPolicy
    /\ rpc = "idle"
    /\ attempt = 0
    /\ lastError = <<>>
    /\ opCalls = 0
    /\ failures = <<>>
    /\ delays = <<>>
    /\ thrown = <<>>

\* the head of the while loop: enter the body and invoke operation(), or fall
\* through to the throw after the loop
RetryLoopHead ==
    IF attempt < policy.maxAttempts
    THEN /\ attempt' = attempt + 1
         /\ opCalls' = opCalls + 1
         /\ rpc' = "operation"
         /\ UNCHANGED <<thrown, lastError, failures, delays>>
    ELSE /\ thrown' = <<normalizeProviderError(
                          IF lastError = <<>>
                          THEN [kind |-> "value", message |-> "", code |-> ""]
                          ELSE lastError[1])>>
         /\ rpc' = "threw"
         /\ UNCHANGED <<attempt, opCalls, lastError, failures, delays>>

\* operation() resolves: return await operation()
RetryOperationResolves ==
    /\ rpc' = "returned"
    /\ UNCHANGED <<attempt, opCalls, lastError, failures, delays, thrown>>

\* a catch block that gives up one attempt early
RetryOperationRejects_offByOne(error) ==
    /\ lastError' = <<error>>
    /\ failures' = Append(failures, error)
    /\ IF ~retryable(policy, error, attempt) \/ attempt + 1 >= policy.maxAttempts
       THEN /\ thrown' = <<normalizeProviderError(error)>>
            /\ rpc' = "threw"
            /\ UNCHANGED delays
       ELSE /\ delays' = Append(delays, backoff(policy, attempt))
            /\ rpc' = "backoff"
            /\ UNCHANGED thrown
    /\ UNCHANGED <<attempt, opCalls>>

\* operation() rejects with error: the catch block
RetryOperationRejects(error) ==
    /\ lastError' = <<error>>
    /\ failures' = Append(failures, error)
    /\ IF ~retryable(policy, error, attempt) \/ attempt >= policy.maxAttempts
       THEN /\ thrown' = <<normalizeProviderError(error)>>
            /\ rpc' = "threw"
            /\ UNCHANGED delays
       ELSE /\ delays' = Append(delays, backoff(policy, attempt))
            /\ rpc' = "backoff"
            /\ UNCHANGED thrown
    /\ UNCHANGED <<attempt, opCalls>>

-----------------------------------------------------------------------------
(* transformMessages *)

\* tool-call ids, closed under every normalizer tried
Ids == {"orig", "norm-orig"}

\* the model transformMessages targets, and another one
TargetModel == [provider |-> "openai", api |-> "openai-completions", id |-> "other-model"]
OtherModel == [provider |-> "openai", api |-> "openai-completions", id |-> "gpt-test"]

UserMessage == [role |-> "user"]

ToolResultMessage(id, name, text, isError) ==
    [role |-> "toolResult", toolCallId |-> id, toolName |-> name,
     content |-> text, isError |-> isError]

ToolCall(id) == [type |-> "toolCall", id |-> id, name |-> "search", thoughtSignature |-> ""]

AssistantMessage(m, stopReason, content) ==
    [role |-> "assistant", provider |-> m.provider, api |-> m.api, model |-> m.id,
     stopReason |-> stopReason, content |-> content]

\* validateMessage of ai/types, as its tests pin it down: a message with one of
\* the three roles passes, any other value throws "Invalid message"
validateMessage(msg) == msg.role \in {"user", "assistant", "toolResult"}

\* the normalizeToolCallId argument: absent, or a function of the id
Normalizers == {[given |-> FALSE, fn |-> [i \in Ids |-> i]]}
               \cup {[given |-> TRUE, fn |-> f] : f \in [Ids -> Ids]}

NoMap == [i \in Ids |-> ""]

\* NormalizeAssistantContentTransformation.apply, one content block:
\* the blocks it is replaced by and the id lookup table afterwards
NormalizeBlock(block, isSameModel, nz, map) ==
    IF block.type = "thinking" THEN
        [map |-> map,
         blocks |-> IF isSameModel /\ block.thinkingSignature # "" THEN <<block>>
                    ELSE IF block.thinking = "" THEN <<>>
                    ELSE IF isSameModel THEN <<block>>
                    ELSE <<[type |-> "text", text |-> block.thinking]>>]
    ELSE IF block.type = "text" THEN
        [map |-> map,
         blocks |-> IF isSameModel THEN <<block>>
                    ELSE <<[type |-> "text", text |-> block.text]>>]
    ELSE
        LET stripped == IF ~isSameModel /\ block.thoughtSignature # ""
                        THEN [block EXCEPT !.thoughtSignature = ""] ELSE block
            normalizedId == nz.fn[block.id]
        IN  IF ~isSameModel /\ nz.given /\ normalizedId # block.id
            THEN [map |-> [map EXCEPT ![block.id] = normalizedId],
                  blocks |-> <<[stripped EXCEPT !.id = normalizedId]>>]
            ELSE [map |-> map, blocks |-> <<stripped>>]

RECURSIVE NormalizeContent(_, _, _, _)
NormalizeContent(content, isSameModel, nz, map) ==
    IF content = <<>> THEN [map |-> map, blocks |-> <<>>]
    ELSE LET first == NormalizeBlock(Head(content), isSameModel, nz, map)
             rest == NormalizeContent(Tail(content), isSameModel, nz, first.map)
         IN  [map |-> rest.map, blocks |-> first.blocks \o rest.blocks]

\* a stage 1 that rewrites the calls but leaves the results' toolCallId alone
RECURSIVE NormalizeAssistantContent_resultsKept(_, _, _, _)
NormalizeAssistantContent_resultsKept(msgs, model, nz, map) ==
    IF msgs = <<>> THEN <<>>
    ELSE LET msg == Head(msgs) IN
         IF msg.role = "user"
         THEN <<msg>> \o NormalizeAssistantContent_resultsKept(Tail(msgs), model, nz, map)
         ELSE IF msg.role = "toolResult"
         THEN <<msg>> \o NormalizeAssistantContent_resultsKept(Tail(msgs), model, nz, map)
         ELSE LET isSameModel == /\ msg.provider = model.provider
                                 /\ msg.api = model.api
                                 /\ msg.model = model.id
                  c == NormalizeContent(msg.content, isSameModel, nz, map)
              IN  <<[msg EXCEPT !.content = c.blocks]>>
                  \o NormalizeAssistantContent_resultsKept(Tail(msgs), model, nz, c.map)

\* NormalizeAssistantContentTransformation.apply: messages.map with the
\* toolCallIdMap built while scanning forward
RECURSIVE NormalizeAssistantContent(_, _, _, _)
NormalizeAssistantContent(msgs, model, nz, map) ==
    IF msgs = <<>> THEN <<>>
    ELSE LET msg == Head(msgs) IN
         IF msg.role = "user"
         THEN <<msg>> \o NormalizeAssistantContent(Tail(msgs), model, nz, map)
         ELSE IF msg.role = "toolResult"
         THEN <<IF map[msg.toolCallId] # "" /\ map[msg.toolCallId] # msg.toolCallId
                THEN [msg EXCEPT !.toolCallId = map[msg.toolCallId]]
                ELSE msg>>
              \o NormalizeAssistantContent(Tail(msgs), model, nz, map)
         ELSE LET isSameModel == /\ msg.provider = model.provider
                                 /\ msg.api = model.api
                                 /\ msg.model = model.id
                  c == NormalizeContent(msg.content, isSameModel, nz, map)
              IN  <<[msg EXCEPT !.content = c.blocks]>>
                  \o NormalizeAssistantContent(Tail(msgs), model, nz, c.map)

\* InsertSyntheticToolResultsTransformation.syntheticToolResult
syntheticToolResult(toolCall) ==
    ToolResultMessage(toolCall.id, toolCall.name, "No result provided", TRUE)

RECURSIVE syntheticResultsFor(_, _)
\* the synthetic results for the pending calls without a result, in call order
syntheticResultsFor(pending, existing) ==
    IF pending = <<>> THEN <<>>
    ELSE (IF Head(pending).id \in existing THEN <<>> ELSE <<syntheticToolResult(Head(pending))>>)
         \o syntheticResultsFor(Tail(pending), existing)

IsToolCall(b) == b.type = "toolCall"

\* InsertSyntheticToolResultsTransformation.apply: the loop over the messages
\* with its locals pendingToolCalls, existingToolResultIds and result
RECURSIVE InsertSyntheticToolResults(_, _, _, _)
InsertSyntheticToolResults(msgs, pendingToolCalls, existingToolResultIds, result) ==
    IF msgs = <<>> THEN result
    ELSE LET msg == Head(msgs) IN
         IF msg.role = "assistant" THEN
            LET flushed == IF pendingToolCalls # <<>>
                           THEN result \o syntheticResultsFor(pendingToolCalls, existingToolResultIds)
                           ELSE result
                cleared == IF pendingToolCalls # <<>> THEN {} ELSE existingToolResultIds
                toolCalls == SelectSeq(msg.content, IsToolCall)
            IN  IF msg.stopReason = "error" \/ msg.stopReason = "aborted"
                THEN InsertSyntheticToolResults(Tail(msgs), <<>>, cleared, flushed)
                ELSE IF toolCalls # <<>>
                THEN InsertSyntheticToolResults(Tail(msgs), toolCalls, {}, Append(flushed, msg))
                ELSE InsertSyntheticToolResults(Tail(msgs), <<>>, cleared, Append(flushed, msg))
         ELSE IF msg.role = "toolResult" THEN
            InsertSyntheticToolResults(Tail(msgs), pendingToolCalls,
                                       existingToolResultIds \cup {msg.toolCallId},
                                       Append(result, msg))
         ELSE IF pendingToolCalls # <<>> THEN
            InsertSyntheticToolResults(Tail(msgs), <<>>, {},
                Append(result \o syntheticResultsFor(pendingToolCalls, existingToolResultIds), msg))
         ELSE InsertSyntheticToolResults(Tail(msgs), pendingToolCalls,
                                         existingToolResultIds, Append(result, msg))

\* MessageTransformationPipeline.transform with the two stages of
\* transformMessages; <<>> stands for the structural-violation error
transformMessages(msgs, model, nz) ==
    IF \A i \in DOMAIN msgs : validateMessage(msgs[i])
    THEN <<InsertSyntheticToolResults(NormalizeAssistantContent(msgs, model, nz, NoMap),
                                      <<>>, {}, <<>>)>>
    ELSE <<>>

XformIdle ==
    /\ messages = <<>>
    /\ normalizer = [given |-> FALSE, fn |-> [i \in Ids |-> i]]
    /\ transformed = <<>>
    /\ retransformed = <<>>

-----------------------------------------------------------------------------
(* The provider stream functions: streamAnthropic, streamOpenAIResponses,   *)
(* streamBedrock, streamKimi                                                *)

Adapters == {"anthropic", "openai-responses", "bedrock", "kimi"}

\* createAssistantMessageOutput(model): the fields the adapters' control flow
\* reads and writes
createAssistantMessageOutput(provider) ==
    [role |-> "assistant", provider |-> provider, stopReason |-> "stop", errorMessage |-> ""]

NoOutput == [role |-> "", provider |-> "", stopReason |-> "", errorMessage |-> ""]

\* reason.includes("CONTEXT_WINDOW")
includesContextWindow(reason) == reason \in {"MODEL_CONTEXT_WINDOW_EXCEEDED"}

\* mapStopReason of utils/provider-consolidation; "" stands for null/undefined
mapStopReason(reason, provider) ==
    IF reason = "" THEN "stop"
    ELSE IF reason \in {"end_turn", "stop", "STOP", "stop_sequence"} THEN "stop"
    ELSE IF reason \in {"max_tokens", "length", "MAX_TOKENS"} THEN "length"
    ELSE IF reason \in {"tool_use", "tool_calls", "function_call", "TOOL_USE"} THEN "toolUse"
    ELSE IF reason \in {"content_filter", "refusal"} THEN "error"
    ELSE IF provider = "bedrock" /\ includesContextWindow(reason) THEN "length"
    ELSE "error"

\* a policy that allows three attempts whether or not a signal is given
RequestPolicy_alwaysThree(provider, signalGiven) ==
    [maxAttempts |-> 3,
     baseDelayMs |-> IF provider = "bedrock" THEN 300 ELSE 250,
     maxDelayMs |-> 0,
     shouldRetry |-> "absent"]

\* the policy each adapter hands to executeWithRetry
RequestPolicy(provider, signalGiven) ==
    [maxAttempts |-> IF signalGiven THEN 1 ELSE 3,
     baseDelayMs |-> IF provider = "bedrock" THEN 300 ELSE 250,
     maxDelayMs |-> 0,
     shouldRetry |-> "absent"]

\* the stream, the output object and the number of push() calls of a call
CallState == [stream |-> StreamState, output |-> output, pushes |-> pushCount]

SetCall(C) ==
    /\ SetStream(C.stream)
    /\ output' = C.output
    /\ pushCount' = C.pushes

\* stream.push*(..., output): the event carries the output object
callPush(C, type, reason) ==
    [C EXCEPT !.stream = push(C.stream, [type |-> type, reason |-> reason, payload |-> C.output]),
              !.pushes = C.pushes + 1]

\* a catch block that ends the stream without pushing the error event
catchBlock_endOnly(C, isAborted, message) ==
    [C EXCEPT !.output = [C.output EXCEPT !.stopReason = IF isAborted THEN "aborted" ELSE "error",
                                          !.errorMessage = message],
              !.stream = end(C.stream, <<>>)]

\* a catch block that reports error whether or not the signal is aborted
catchBlock_neverAborted(C, isAborted, message) ==
    LET out == [C.output EXCEPT !.stopReason = "error", !.errorMessage = message]
        pushed == callPush([C EXCEPT !.output = out], "error", out.stopReason)
    IN  [pushed EXCEPT !.stream = end(pushed.stream, <<>>)]

\* the catch block of a stream function: stopReason, errorMessage, pushError, end
catchBlock(C, isAborted, message) ==
    LET out == [C.output EXCEPT !.stopReason = IF isAborted THEN "aborted" ELSE "error",
                                !.errorMessage = message]
        pushed == callPush([C EXCEPT !.output = out], "error", out.stopReason)
    IN  [pushed EXCEPT !.stream = end(pushed.stream, <<>>)]

\* the message of the error thrown for a stop reason of error or aborted
unknownErrorMessage(provider, out) ==
    IF provider = "kimi" /\ out.errorMessage # "" THEN out.errorMessage
    ELSE "An unknown error occurred"

\* a terminal transition that pushes done whatever the stop reason is
terminalTransition_noStopReasonCheck(C, provider, isAborted) ==
    IF isAborted THEN catchBlock(C, isAborted, "Request was aborted")
    ELSE LET pushed == callPush(C, "done", C.output.stopReason)
         IN  [pushed EXCEPT !.stream = end(pushed.stream, <<>>)]

\* the terminal transition after the wire loop: the two throws into the catch
\* block, or pushDone and end
terminalTransition(C, provider, isAborted) ==
    IF isAborted THEN catchBlock(C, isAborted, "Request was aborted")
    ELSE IF C.output.stopReason = "aborted" \/ C.output.stopReason = "error"
    THEN catchBlock(C, isAborted, unknownErrorMessage(provider, C.output))
    ELSE LET pushed == callPush(C, "done", C.output.stopReason)
         IN  [pushed EXCEPT !.stream = end(pushed.stream, <<>>)]

\* what the code before the request may throw: the onPayload hook of the
\* caller, and streamKimi's check of the API key
SetupErrors(provider) ==
    {"onPayload failed"}
    \cup (IF provider = "kimi" THEN {"No API key for provider: kimi"} ELSE {})

\* executeOpenAIRequest of providers/openai-responses-shared: it runs the
\* request under executeWithRetry with the retryPolicy it is handed
executeOpenAIRequest(retryPolicy) == retryPolicy

\* the items processResponsesStream reads: text deltas, and the completion of
\* the response with the stop reason its status stands for
ResponsesWireItems ==
    {[kind |-> "output_text.delta", reason |-> ""]}
    \cup {[kind |-> "response.completed", reason |-> r] :
            r \in {"stop", "length", "toolUse", "error"}}

\* processResponsesStream of providers/openai-responses-shared, one item: it
\* translates the item into canonical events and sets the stop reason
processResponsesStream(C, item) ==
    IF item.kind = "output_text.delta" THEN callPush(C, "text_delta", "")
    ELSE [C EXCEPT !.output.stopReason = item.reason]

\* the items the wire delivers to the loop of each adapter
WireItems(provider) ==
    CASE provider = "anthropic" ->
            {[kind |-> "content_block_delta", reason |-> ""]}
            \cup {[kind |-> "message_delta", reason |-> r] :
                    r \in {"", "end_turn", "max_tokens", "tool_use", "refusal", "pause_turn"}}
      [] provider = "bedrock" ->
            {[kind |-> "messageStart", reason |-> ""],
             [kind |-> "contentBlockDelta", reason |-> ""]}
            \cup {[kind |-> "messageStop", reason |-> r] :
                    r \in {"", "end_turn", "max_tokens", "tool_use", "content_filtered",
                           "MODEL_CONTEXT_WINDOW_EXCEEDED"}}
      [] provider = "kimi" ->
            {[kind |-> k, reason |-> r] :
                k \in {"chunk", "chunk without content"},
                r \in {"", "stop", "length", "tool_calls"}}
      [] provider = "openai-responses" -> ResponsesWireItems

\* one item of the wire handled by the loop of the adapter
wireStep(C, provider, item) ==
    CASE provider = "anthropic" ->
            IF item.kind = "content_block_delta" THEN callPush(C, "text_delta", "")
            ELSE IF item.reason # ""
            THEN [C EXCEPT !.output.stopReason = mapStopReason(item.reason, "anthropic")]
            ELSE C
      [] provider = "bedrock" ->
            IF item.kind = "messageStart" THEN callPush(C, "start", "")
            ELSE IF item.kind = "contentBlockDelta" THEN callPush(C, "text_delta", "")
            ELSE [C EXCEPT !.output.stopReason = mapStopReason(item.reason, "bedrock")]
      [] provider = "kimi" ->
            IF item.kind = "chunk without content" THEN C
            ELSE LET pushed == callPush(C, "text_delta", "")
                 IN  IF item.reason = "stop" THEN [pushed EXCEPT !.output.stopReason = "stop"]
                     ELSE IF item.reason = "length"
                     THEN [pushed EXCEPT !.output.stopReason = "length"]
                     ELSE pushed
      [] provider = "openai-responses" -> processResponsesStream(C, item)

\* what the wire loop may throw: a failing read of the response stream and,
\* for Bedrock, the exception items and a message start of the wrong role
WireErrors(provider) ==
    {"network error"}
    \cup (IF provider = "bedrock"
          THEN {"Throttling error: slow down",
                "Unexpected assistant message start but got user message start instead"}
          ELSE {})

\* what a request may reject with
RequestErrors ==
    {[kind |-> "Error", message |-> m, code |-> ""] :
        m \in {"rate limit exceeded", "Unauthorized", "Service Unavailable", "Request was aborted"}}

CallIdle ==
    /\ adapter = "none"
    /\ hasSignal = FALSE
    /\ aborted = FALSE
    /\ abortedAtEntry = FALSE
    /\ cpc = "idle"
    /\ output = NoOutput
    /\ wireCount = 0

-----------------------------------------------------------------------------
(* parseStreamingJsonWithDiagnostics *)

\* A text is a sequence of tokens; " " is white space.  A JSON value is the
\* sequence of the tokens that spell it, without white space.
WhiteSpace == " "

EmptyObject == <<"{", "}">>

JsonNull == <<"null">>

JsUndefined == <<"undefined">>

RECURSIVE trimStart(_)
trimStart(text) ==
    IF text # <<>> /\ Head(text) = WhiteSpace THEN trimStart(Tail(text)) ELSE text

RECURSIVE trimEnd(_)
trimEnd(text) ==
    IF text # <<>> /\ text[Len(text)] = WhiteSpace
    THEN trimEnd(SubSeq(text, 1, Len(text) - 1))
    ELSE text

\* String.prototype.trim
trim(text) == trimEnd(trimStart(text))

IsWhiteSpace(token) == token = WhiteSpace

IsNotWhiteSpace(token) == token # WhiteSpace

\* the JSON grammar over the tokens: a number, null, or an object with no
\* member or the one member "a"
RECURSIVE IsJsonValue(_)
IsJsonValue(tokens) ==
    \/ tokens = <<"1">>
    \/ tokens = JsonNull
    \/ tokens = EmptyObject
    \/ /\ Len(tokens) >= 5
       /\ tokens[1] = "{"
       /\ tokens[2] = "\"a\""
       /\ tokens[3] = ":"
       /\ tokens[Len(tokens)] = "}"
       /\ IsJsonValue(SubSeq(tokens, 4, Len(tokens) - 1))

\* JSON.parse: white space around tokens is insignificant; anything the
\* grammar does not derive is a SyntaxError
JSONparse(text) ==
    LET tokens == SelectSeq(text, IsNotWhiteSpace)
    IN  IF IsJsonValue(tokens)
        THEN [ok |-> TRUE, value |-> tokens, message |-> ""]
        ELSE [ok |-> FALSE, value |-> <<>>,
              message |-> IF tokens = <<>> \/ tokens[Len(tokens)] \in {"{", ":", "\"a\""}
                          THEN "Unexpected end of JSON input"
                          ELSE "Unexpected token"]

\* partialParse of the partial-json package: it returns a value, which may
\* be nullish, or throws
PartialOutcomes ==
    {[ok |-> TRUE, value |-> EmptyObject, message |-> ""],
     [ok |-> TRUE, value |-> JsonNull, message |-> ""],
     [ok |-> TRUE, value |-> JsUndefined, message |-> ""],
     [ok |-> FALSE, value |-> <<>>, message |-> "malformed"]}

partialParse(text, outcome) == outcome

\* a ?? b
nullish(value, other) == IF value \in {JsonNull, JsUndefined} THEN other ELSE value

\* an optional property: <<>> when absent
Optional(set) == {<<>>} \cup {<<x>> : x \in set}

CustomFallback == <<"{", "\"ok\"", ":", "false", "}">>

StreamingJsonParseOptions ==
    [fallbackValue : Optional({CustomFallback, JsonNull}),
     allowPartial : Optional(BOOLEAN),
     trimInput : Optional(BOOLEAN)]

PartialJsonInputs ==
    Optional({<<>>,
              <<WhiteSpace, WhiteSpace>>,
              <<"{", "\"a\"", ":", "1", "}">>,
              <<WhiteSpace, "{", "\"a\"", ":", "1", "}", WhiteSpace>>,
              <<"null">>,
              <<"{", "\"a\"", ":">>,
              <<"{", "\"a\"", ":", "{">>,
              <<"not", WhiteSpace, "json">>})

StreamingJsonParseResult(value, parsed, usedPartialParser, error) ==
    [value |-> value, parsed |-> parsed, usedPartialParser |-> usedPartialParser,
     error |-> error]

\* a parser that tries the tolerant parser whatever allowPartial says
parseStreamingJsonWithDiagnostics_alwaysPartial(partialJson, options, outcome) ==
    LET fallbackValue == IF options.fallbackValue = <<>> THEN EmptyObject
                         ELSE nullish(options.fallbackValue[1], EmptyObject)
        input == IF options.trimInput = <<FALSE>> \/ partialJson = <<>> THEN partialJson
                 ELSE <<trim(partialJson[1])>>
    IN  IF input = <<>> \/ input[1] = <<>>
        THEN StreamingJsonParseResult(fallbackValue, FALSE, FALSE, <<>>)
        ELSE LET strict == JSONparse(input[1])
                 result == partialParse(input[1], outcome)
             IN  IF strict.ok
                 THEN StreamingJsonParseResult(strict.value, TRUE, FALSE, <<>>)
                 ELSE IF result.ok
                 THEN StreamingJsonParseResult(nullish(result.value, fallbackValue),
                                               TRUE, TRUE, <<>>)
                 ELSE StreamingJsonParseResult(fallbackValue, FALSE, TRUE,
                                               <<result.message>>)

parseStreamingJsonWithDiagnostics(partialJson, options, outcome) ==
    LET fallbackValue == IF options.fallbackValue = <<>> THEN EmptyObject
                         ELSE nullish(options.fallbackValue[1], EmptyObject)
        input == IF options.trimInput = <<FALSE>> \/ partialJson = <<>> THEN partialJson
                 ELSE <<trim(partialJson[1])>>
    IN  IF input = <<>> \/ input[1] = <<>>
        THEN StreamingJsonParseResult(fallbackValue, FALSE, FALSE, <<>>)
        ELSE LET strict == JSONparse(input[1])
                 result == partialParse(input[1], outcome)
             IN  IF strict.ok
                 THEN StreamingJsonParseResult(strict.value, TRUE, FALSE, <<>>)
                 ELSE IF options.allowPartial = <<FALSE>>
                 THEN StreamingJsonParseResult(fallbackValue, FALSE, FALSE,
                                               <<strict.message>>)
                 ELSE IF result.ok
                 THEN StreamingJsonParseResult(nullish(result.value, fallbackValue),
                                               TRUE, TRUE, <<>>)
                 ELSE StreamingJsonParseResult(fallbackValue, FALSE, TRUE,
                                               <<result.message>>)

parseStreamingJson(partialJson, options, outcome) ==
    parseStreamingJsonWithDiagnostics(partialJson, options, outcome).value

ParseIdle ==
    /\ parseInput = <<>>
    /\ parseOptions = [fallbackValue |-> <<>>, allowPartial |-> <<>>, trimInput |-> <<>>]
    /\ partialOutcome = [ok |-> FALSE, value |-> <<>>, message |-> "malformed"]
    /\ parseResult = <<>>

-----------------------------------------------------------------------------
(* isContextOverflow *)

\* An error message is a sequence of tokens: phrases, numbers and the rest.
\* A pattern is a sequence of elements: a set of phrases (lower case, the
\* patterns are case-insensitive), digits (\d+), or anything (.*).
Lit(phrases) == [kind |-> "lit", phrases |-> phrases]

Digits == [kind |-> "digits", phrases |-> {}]

Anything == [kind |-> "any", phrases |-> {}]

NumberTokens == {"400", "413", "429", "8192", "9000"}

toLowerCase(token) ==
    CASE token = "Prompt is too long" -> "prompt is too long"
      [] token = "Too Many Tokens" -> "too many tokens"
      [] OTHER -> token

OVERFLOW_PATTERN_CONFIG ==
    << <<Lit({"prompt is too long"})>>,
       <<Lit({"input is too long for requested model"})>>,
       <<Lit({"exceeds the context window"})>>,
       <<Lit({"input token count"}), Anything, Lit({"exceeds the maximum"})>>,
       <<Lit({"maximum prompt length is"}), Digits>>,
       <<Lit({"reduce the length of the messages"})>>,
       <<Lit({"maximum context length is"}), Digits, Lit({"tokens"})>>,
       <<Lit({"exceeds the limit of"}), Digits>>,
       <<Lit({"exceeds the available context size"})>>,
       <<Lit({"greater than the context length"})>>,
       <<Lit({"context window exceeds limit"})>>,
       <<Lit({"context length exceeded", "context_length_exceeded",
              "context_length exceeded", "context length_exceeded"})>>,
       <<Lit({"too many tokens"})>>,
       <<Lit({"token limit exceeded"})>> >>

\* /^4(00|13|29)\s*(status code)?\s*\(no body\)/i
NoBodyPatterns ==
    {<<Lit({"400", "413", "429"}), Lit({"(no body)"})>>,
     <<Lit({"400", "413", "429"}), Lit({"status code"}), Lit({"(no body)"})>>}

\* the pattern matches a prefix of the text
RECURSIVE matchesPrefix(_, _)
matchesPrefix(pattern, text) ==
    IF pattern = <<>> THEN TRUE
    ELSE IF Head(pattern).kind = "any"
    THEN \E k \in 0..Len(text) :
            matchesPrefix(Tail(pattern), SubSeq(text, k + 1, Len(text)))
    ELSE IF text = <<>> THEN FALSE
    ELSE /\ IF Head(pattern).kind = "digits"
            THEN Head(text) \in NumberTokens
            ELSE toLowerCase(Head(text)) \in Head(pattern).phrases
         /\ matchesPrefix(Tail(pattern), Tail(text))

\* RegExp.prototype.test of a pattern that is not anchored
test(pattern, text) ==
    \E start \in 1..(Len(text) + 1) :
        matchesPrefix(pattern, SubSeq(text, start, Len(text)))

\* errorMessage and contextWindow are <<>> when absent; "" and 0 are falsy
isContextOverflow(message, contextWindow) ==
    \/ /\ message.stopReason = "error"
       /\ message.errorMessage # <<>>
       /\ message.errorMessage[1] # <<>>
       /\ \/ \E i \in DOMAIN OVERFLOW_PATTERN_CONFIG :
                test(OVERFLOW_PATTERN_CONFIG[i], message.errorMessage[1])
          \/ \E pattern \in NoBodyPatterns : matchesPrefix(pattern, message.errorMessage[1])
    \/ /\ contextWindow # <<>>
       /\ contextWindow[1] # 0
       /\ message.stopReason = "stop"
       /\ message.usage.input + message.usage.cacheRead > contextWindow[1]

OverflowErrorMessages ==
    Optional({<<>>,
              <<"input", "exceeds the context window">>,
              <<"Prompt is too long">>,
              <<"maximum context length is", "8192", "tokens">>,
              <<"maximum context length is", "tokens">>,
              <<"input token count", "of", "9000", "exceeds the maximum">>,
              <<"context_length_exceeded">>,
              <<"rate limit exceeded">>,
              <<"429", "(no body)">>,
              <<"413", "status code", "(no body)">>,
              <<"error:", "400", "(no body)">>})

OverflowMessages ==
    [stopReason : {"stop", "length", "toolUse", "error", "aborted"},
     errorMessage : OverflowErrorMessages,
     usage : [input : {0, 6, 10, 11}, cacheRead : {0, 5}]]

ContextWindows == Optional({0, 10})

-----------------------------------------------------------------------------
(* StreamingStateManager *)

StopReasons == {"stop", "length", "toolUse", "error", "aborted"}

\* new StreamingStateManager(initialOutput); lastCall is the method called last
StreamingStateManager(initialOutput) ==
    [output |-> initialOutput, _stopReason |-> "stop", _isComplete |-> FALSE,
     lastCall |-> "constructor"]

\* Object.assign(this.output.usage, update): update holds <<>> for a field
\* it does not carry
setUsage(m, update) ==
    [m EXCEPT !.output.usage =
                 [f \in DOMAIN @ |-> IF update[f] = <<>> THEN @[f] ELSE update[f][1]],
              !.lastCall = "setUsage"]

setStopReason(m, reason) ==
    [m EXCEPT !._stopReason = reason, !.output.stopReason = reason,
              !.lastCall = "setStopReason"]

complete(m) == [m EXCEPT !._isComplete = TRUE, !.lastCall = "complete"]

\* StreamingStateManager.error
managerError(m, errorMessage) ==
    [m EXCEPT !._isComplete = TRUE, !._stopReason = "error",
              !.output.stopReason = "error", !.output.errorMessage = <<errorMessage>>,
              !.lastCall = "error"]

-----------------------------------------------------------------------------
(* The wire event loops of streamAnthropic, streamBedrock and streamKimi *)

MaxWireEvents == 4

WireIndexes == {0, 1}

WireAdapters == {"anthropic", "bedrock", "kimi"}

\* usage as wire events carry it; 0 stands for an absent field as well
WireUsages ==
    {[input |-> 7, output |-> 3, cacheRead |-> 2, cacheWrite |-> 1],
     [input |-> 0, output |-> 5, cacheRead |-> 0, cacheWrite |-> 0]}

NoWireUsage == [input |-> 0, output |-> 0, cacheRead |-> 0, cacheWrite |-> 0]

\* model.cost, per token
ModelCost == [input |-> 3, output |-> 15, cacheRead |-> 1, cacheWrite |-> 4]

\* ModelRegistry.estimateCost on the four token counts
estimateCost(tokens) ==
    [input |-> ModelCost.input * tokens.input,
     output |-> ModelCost.output * tokens.output,
     cacheRead |-> ModelCost.cacheRead * tokens.cacheRead,
     cacheWrite |-> ModelCost.cacheWrite * tokens.cacheWrite,
     total |-> ModelCost.input * tokens.input + ModelCost.output * tokens.output
               + ModelCost.cacheRead * tokens.cacheRead
               + ModelCost.cacheWrite * tokens.cacheWrite]

createEmptyUsage ==
    [input |-> 0, output |-> 0, cacheRead |-> 0, cacheWrite |-> 0, totalTokens |-> 0,
     cost |-> [input |-> 0, output |-> 0, cacheRead |-> 0, cacheWrite |-> 0, total |-> 0]]

\* a usage update that adds the event's counts to the running ones
replaceUsage_accumulating(usage, u, totalTokens) ==
    LET counts == [input |-> usage.input + u.input, output |-> usage.output + u.output,
                   cacheRead |-> usage.cacheRead + u.cacheRead,
                   cacheWrite |-> usage.cacheWrite + u.cacheWrite]
    IN  [input |-> counts.input, output |-> counts.output, cacheRead |-> counts.cacheRead,
         cacheWrite |-> counts.cacheWrite, totalTokens |-> usage.totalTokens + totalTokens,
         cost |-> estimateCost(counts)]

\* the four assignments to output.usage, totalTokens and calculateCost
replaceUsage(usage, u, totalTokens) ==
    [input |-> u.input, output |-> u.output, cacheRead |-> u.cacheRead,
     cacheWrite |-> u.cacheWrite, totalTokens |-> totalTokens, cost |-> estimateCost(u)]

\* a wire event; the fields an event type does not have are "" or 0
WireEvent(type, index, kind, stop_reason, usage) ==
    [type |-> type, index |-> index, kind |-> kind, stop_reason |-> stop_reason,
     usage |-> usage, delta |-> <<>>]


\* a content block; index and partialJson are <<>> when the block has no
\* such field; text holds the text, the thinking or the arguments parsed
Block(type, index, partialJson) ==
    [type |-> type, text |-> <<>>, index |-> index, partialJson |-> partialJson,
     arguments |-> IF type = "toolCall" THEN EmptyObject ELSE <<>>]

\* the fragments of argument text the input_json_delta / toolUse deltas carry
ToolDeltas == {<<"{", "\"a\"", ":">>, <<"1", "}">>}

\* the payloads a delta for an open block of the kind may carry
DeltasOf(kind) == IF kind = "tool_use" THEN ToolDeltas ELSE {<<"Hi">>}

\* partialParse of the partial-json package, as a function of its input: a
\* text that opens an object gives a value determined by the text, any
\* other text makes it throw
partialParseOf(text) ==
    IF text # <<>> /\ Head(text) = "{"
    THEN [ok |-> TRUE, value |-> <<"partial">> \o text, message |-> ""]
    ELSE [ok |-> FALSE, value |-> <<>>, message |-> "malformed"]

\* parseStreamingJson(block.partialJson), with the default options
parseArguments(partialJson) ==
    parseStreamingJson(<<partialJson>>,
                       [fallbackValue |-> <<>>, allowPartial |-> <<>>, trimInput |-> <<>>],
                       partialParseOf(trim(partialJson)))

\* blocks.findIndex((b) => b.index === index), as a position from 1; 0 when
\* there is none
findIndex(blocks, index) ==
    LET found == {i \in DOMAIN blocks : blocks[i].index = <<index>>}
    IN  IF found = {} THEN 0 ELSE CHOOSE i \in found : \A j \in found : i <= j

\* the call at the start of the wire loop.  events are the canonical events
\* pushed, each with the wire index it came from and, as target, the position
\* of the block the latest block start with that wire index opened; open is
\* the blocks the server has open in the current response; opened, seen and
\* script are history: the block each wire index opened last, the usages the
\* usage-bearing events carried, and how far the wire events follow
\* the scripted scenario (5 once the response ended right after it)
WireCall(provider, signalGiven) ==
    [adapter |-> provider, hasSignal |-> signalGiven, aborted |-> FALSE,
     pc |-> "loop", attempt |-> 1, n |-> 0,
     content |-> <<>>, usage |-> createEmptyUsage, stopReason |-> "stop",
     errorMessage |-> <<>>,
     events |-> IF provider = "bedrock" THEN <<>>
                ELSE <<[type |-> "start", contentIndex |-> -1, wireIndex |-> -1,
                        target |-> -1, delta |-> <<>>]>>,
     begun |-> provider # "bedrock",
     open |-> [k \in WireIndexes |-> "none"],
     opened |-> [k \in WireIndexes |-> 0],
     seen |-> <<>>,
     script |-> 0]

\* stream.push of a block event
pushBlockEvent(W, type, position, index, delta) ==
    [W EXCEPT !.events = Append(@, [type |-> type, contentIndex |-> position - 1,
                                     wireIndex |-> index,
                                     target |-> W.opened[index] - 1,
                                     delta |-> delta])]

\* output.content.push(block) and the *_start event
openBlock(W, type, index, partialJson, startEvent) ==
    LET position == Len(W.content) + 1
        W1 == [W EXCEPT !.content = Append(@, Block(type, <<index>>, partialJson)),
                        !.opened[index] = position]
    IN  pushBlockEvent(W1, startEvent, position, index, <<>>)

\* a delta handler that keeps only the latest fragment of argument text
appendDelta_latestOnly(W, position, index, deltaEvent, delta) ==
    LET block == W.content[position]
        W1 == [W EXCEPT !.content[position] =
                 IF block.type = "toolCall"
                 THEN [block EXCEPT !.partialJson = <<delta>>,
                                    !.arguments = parseArguments(delta)]
                 ELSE [block EXCEPT !.text = @ \o delta]]
    IN  pushBlockEvent(W1, deltaEvent, position, index, delta)

\* block.text += delta (or thinking), or block.partialJson += delta with
\* block.arguments = parseStreamingJson(block.partialJson), and the *_delta
\* event
appendDelta(W, position, index, deltaEvent, delta) ==
    LET block == W.content[position]
        accumulated == (IF block.partialJson = <<>> THEN <<>> ELSE block.partialJson[1])
                       \o delta
        W1 == [W EXCEPT !.content[position] =
                 IF block.type = "toolCall"
                 THEN [block EXCEPT !.partialJson = <<accumulated>>,
                                    !.arguments = parseArguments(accumulated)]
                 ELSE [block EXCEPT !.text = @ \o delta]]
    IN  pushBlockEvent(W1, deltaEvent, position, index, delta)

\* the own properties of a content block as the message carries it
FieldsOf(block) ==
    (CASE block.type = "text" -> {"type", "text"}
       [] block.type = "thinking" -> {"type", "thinking", "thinkingSignature"}
       [] block.type = "toolCall" -> {"type", "id", "name", "arguments"})
    \cup (IF block.index # <<>> THEN {"index"} ELSE {})
    \cup (IF block.partialJson # <<>> THEN {"partialJson"} ELSE {})

\* a stop handler that leaves the wire index on the block
closeBlock_keepsIndex(W, index) ==
    LET position == findIndex(W.content, index)
    IN  IF position = 0 THEN W
        ELSE pushBlockEvent([W EXCEPT !.content[position].partialJson = <<>>],
                            CASE W.content[position].type = "text" -> "text_end"
                              [] W.content[position].type = "thinking" -> "thinking_end"
                              [] W.content[position].type = "toolCall" -> "toolcall_end",
                            position, index, <<>>)

\* content_block_stop / contentBlockStop
closeBlock(W, index) ==
    LET position == findIndex(W.content, index)
    IN  IF position = 0 THEN W
        ELSE LET block == W.content[position]
                 W1 == [W EXCEPT !.content[position] =
                          IF block.type = "toolCall"
                          THEN [block EXCEPT !.index = <<>>,
                                             !.arguments =
                                                 IF block.partialJson = <<>>
                                                 THEN EmptyObject
                                                 ELSE parseArguments(block.partialJson[1]),
                                             !.partialJson = <<>>]
                          ELSE [block EXCEPT !.index = <<>>]]
             IN  pushBlockEvent(W1,
                                CASE block.type = "text" -> "text_end"
                                  [] block.type = "thinking" -> "thinking_end"
                                  [] block.type = "toolCall" -> "toolcall_end",
                                position, index, <<>>)

BlockTypeOf(kind) ==
    CASE kind = "text" -> "text"
      [] kind = "thinking" -> "thinking"
      [] kind = "tool_use" -> "toolCall"
      [] OTHER -> "none"

StartEventOf(type) ==
    CASE type = "text" -> "text_start"
      [] type = "thinking" -> "thinking_start"
      [] type = "toolCall" -> "toolcall_start"

DeltaEventOf(type) ==
    CASE type = "text" -> "text_delta"
      [] type = "thinking" -> "thinking_delta"
      [] type = "toolCall" -> "toolcall_delta"

\* the onEvent callback of streamAnthropic
anthropicOnEvent(W, event) ==
    CASE event.type = "message_start" ->
            [W EXCEPT !.usage = replaceUsage(@, event.usage,
                          event.usage.input + event.usage.output
                          + event.usage.cacheRead + event.usage.cacheWrite)]
      [] event.type = "content_block_start" ->
            IF event.kind \in {"text", "thinking"}
            THEN openBlock(W, BlockTypeOf(event.kind), event.index, <<>>,
                           StartEventOf(BlockTypeOf(event.kind)))
            ELSE IF event.kind = "tool_use"
            THEN openBlock(W, "toolCall", event.index, <<<<>>>>, "toolcall_start")
            ELSE W
      [] event.type = "content_block_delta" ->
            LET position == findIndex(W.content, event.index)
                wanted == CASE event.kind = "text_delta" -> "text"
                            [] event.kind = "thinking_delta" -> "thinking"
                            [] event.kind = "input_json_delta" -> "toolCall"
                            [] OTHER -> "none"
            IN  IF position # 0 /\ W.content[position].type = wanted
                THEN appendDelta(W, position, event.index, DeltaEventOf(wanted),
                                 event.delta)
                ELSE W
      [] event.type = "content_block_stop" -> closeBlock(W, event.index)
      [] event.type = "message_delta" ->
            [W EXCEPT !.stopReason = IF event.stop_reason # ""
                                     THEN mapStopReason(event.stop_reason, "anthropic")
                                     ELSE @,
                      !.usage = replaceUsage(@, event.usage,
                          event.usage.input + event.usage.output
                          + event.usage.cacheRead + event.usage.cacheWrite)]

\* the body of the for await loop of streamBedrock, with
\* handleContentBlockStart, handleContentBlockDelta, handleContentBlockStop
\* and handleMetadata
bedrockOnItem(W, item) ==
    CASE item.type = "messageStart" ->
            [W EXCEPT !.events = Append(@, [type |-> "start", contentIndex |-> -1,
                                             wireIndex |-> -1, target |-> -1, delta |-> <<>>])]
      [] item.type = "contentBlockStart" ->
            IF item.kind = "tool_use"
            THEN openBlock(W, "toolCall", item.index, <<<<>>>>, "toolcall_start")
            ELSE W
      [] item.type = "contentBlockDelta" ->
            LET position == findIndex(W.content, item.index)
            IN  IF item.kind = "text"
                THEN LET W1 == IF position = 0
                               THEN openBlock(W, "text", item.index, <<>>, "text_start")
                               ELSE W
                         at == IF position = 0 THEN Len(W1.content) ELSE position
                     IN  IF W1.content[at].type = "text"
                         THEN appendDelta(W1, at, item.index, "text_delta", item.delta)
                         ELSE W1
                ELSE IF item.kind = "tool_use"
                THEN IF position # 0 /\ W.content[position].type = "toolCall"
                     THEN appendDelta(W, position, item.index, "toolcall_delta", item.delta)
                     ELSE W
                ELSE LET W1 == IF position = 0
                               THEN openBlock(W, "thinking", item.index, <<>>,
                                              "thinking_start")
                               ELSE W
                         at == IF position = 0 THEN Len(W1.content) ELSE position
                     IN  IF W1.content[at].type = "thinking"
                         THEN appendDelta(W1, at, item.index, "thinking_delta", item.delta)
                         ELSE W1
      [] item.type = "contentBlockStop" -> closeBlock(W, item.index)
      [] item.type = "messageStop" ->
            [W EXCEPT !.stopReason = mapStopReason(item.stop_reason, "bedrock")]
      [] item.type = "metadata" ->
            IF item.kind = "usage"
            THEN [W EXCEPT !.usage = replaceUsage(@, item.usage,
                                                  item.usage.input + item.usage.output)]
            ELSE W

\* processKimiChunk for a chunk whose first choice carries content
processKimiChunk(W, chunk) ==
    LET last == Len(W.content)
        W1 == IF last # 0 /\ W.content[last].type = "text"
              THEN [W EXCEPT !.content[last].text = @ \o <<"Hi">>]
              ELSE [W EXCEPT !.content = Append(@, [Block("text", <<>>, <<>>)
                                                      EXCEPT !.text = <<"Hi">>])]
        W2 == [W1 EXCEPT !.events = Append(@, [type |-> "text_delta",
                                               contentIndex |-> Len(W1.content) - 1,
                                               wireIndex |-> -1, target |-> -1, delta |-> <<>>])]
        W3 == [W2 EXCEPT !.stopReason = IF chunk.stop_reason \in {"stop", "length"}
                                        THEN chunk.stop_reason ELSE @]
    IN  IF chunk.usage = NoWireUsage THEN W3
        ELSE [W3 EXCEPT !.usage.input = chunk.usage.input,
                        !.usage.output = chunk.usage.output,
                        !.usage.totalTokens = chunk.usage.input + chunk.usage.output,
                        !.usage.cost.input = chunk.usage.input,
                        !.usage.cost.output = 2 * chunk.usage.output,
                        !.usage.cost.total = chunk.usage.input + 2 * chunk.usage.output
                                             + W3.usage.cost.cacheRead
                                             + W3.usage.cost.cacheWrite]

onWire(W, event) ==
    CASE W.adapter = "anthropic" -> anthropicOnEvent(W, event)
      [] W.adapter = "bedrock" -> bedrockOnItem(W, event)
      [] W.adapter = "kimi" -> processKimiChunk(W, event)

\* the catch block of the stream function: the bookkeeping fields it
\* deletes, the error event and stream.end()
wireCatch(W, isAborted, message) ==
    [W EXCEPT !.content =
                 [i \in DOMAIN @ |->
                    CASE W.adapter = "anthropic" -> [@[i] EXCEPT !.index = <<>>]
                      [] W.adapter = "bedrock" ->
                            [@[i] EXCEPT !.index = <<>>, !.partialJson = <<>>]
                      [] OTHER -> @[i]],
              !.aborted = isAborted,
              !.stopReason = IF isAborted THEN "aborted" ELSE "error",
              !.errorMessage = <<message>>,
              !.events = Append(@, [type |-> "error", contentIndex |-> -1,
                                     wireIndex |-> -1, target |-> -1, delta |-> <<>>]),
              !.pc = "ended"]

\* after the loop: the two checks and pushDone
wireFinish(W) ==
    IF W.stopReason \in {"aborted", "error"}
    THEN wireCatch(W, FALSE, "An unknown error occurred")
    ELSE [W EXCEPT !.events = Append(@, [type |-> "done", contentIndex |-> -1,
                                          wireIndex |-> -1, target |-> -1, delta |-> <<>>]),
                   !.pc = "ended"]

\* the stop reasons of Anthropic.Messages.StopReason
AnthropicStopReasons ==
    {"end_turn", "max_tokens", "tool_use", "refusal", "pause_turn", "stop_sequence"}

\* mapStopReason of providers/anthropic.ts, the adapter's own table
anthropicMapStopReason(reason) ==
    CASE reason = "end_turn" -> "stop"
      [] reason = "max_tokens" -> "length"
      [] reason = "tool_use" -> "toolUse"
      [] reason = "refusal" -> "error"
      [] reason = "pause_turn" -> "stop"
      [] reason = "stop_sequence" -> "stop"
      [] OTHER -> "throws"

\* the wire events the server may send next: a block is started under an
\* index that is not open, and gets deltas of its own kind and one stop
LegalWireEvents(W) ==
    CASE W.adapter = "anthropic" ->
            {WireEvent("message_start", 0, "", "", u) : u \in WireUsages}
            \cup {WireEvent("content_block_start", k, kind, "", NoWireUsage) :
                    k \in {j \in WireIndexes : W.open[j] = "none"},
                    kind \in {"text", "thinking", "tool_use"}}
            \cup UNION {{[WireEvent("content_block_delta", k,
                                    CASE W.open[k] = "text" -> "text_delta"
                                      [] W.open[k] = "thinking" -> "thinking_delta"
                                      [] W.open[k] = "tool_use" -> "input_json_delta",
                                    "", NoWireUsage) EXCEPT !.delta = payload] :
                           payload \in DeltasOf(W.open[k])} :
                         k \in {j \in WireIndexes : W.open[j] # "none"}}
            \cup {WireEvent("content_block_stop", k, "", "", NoWireUsage) :
                    k \in {j \in WireIndexes : W.open[j] # "none"}}
            \cup {WireEvent("message_delta", 0, "", r, u) :
                    r \in {""} \cup AnthropicStopReasons, u \in WireUsages}
      [] W.adapter = "bedrock" ->
            IF ~W.begun THEN {WireEvent("messageStart", 0, "", "", NoWireUsage)}
            ELSE {WireEvent("contentBlockStart", k, "tool_use", "", NoWireUsage) :
                    k \in {j \in WireIndexes : W.open[j] = "none"}}
                 \cup {[WireEvent("contentBlockDelta", k, kind, "", NoWireUsage)
                          EXCEPT !.delta = <<"Hi">>] :
                         k \in {j \in WireIndexes : W.open[j] = "none"},
                         kind \in {"text", "thinking"}}
                 \cup UNION {{[WireEvent("contentBlockDelta", k, W.open[k], "",
                                         NoWireUsage) EXCEPT !.delta = payload] :
                                payload \in DeltasOf(W.open[k])} :
                              k \in {j \in WireIndexes : W.open[j] # "none"}}
                 \cup {WireEvent("contentBlockStop", k, "", "", NoWireUsage) :
                         k \in {j \in WireIndexes : W.open[j] # "none"}}
                 \cup {WireEvent("messageStop", 0, "", r, NoWireUsage) :
                         r \in {"end_turn", "guardrail_intervened"}}
                 \cup {WireEvent("metadata", 0, "usage", "", u) : u \in WireUsages}
                 \cup {WireEvent("metadata", 0, "", "", NoWireUsage)}
      [] W.adapter = "kimi" ->
            {WireEvent("chunk", 0, "", r, u) :
                r \in {"", "stop"}, u \in {NoWireUsage} \cup WireUsages}

\* what the server has open after the event
openAfter(W, event) ==
    IF event.type \in {"content_block_start", "contentBlockStart", "contentBlockDelta"}
       /\ W.open[event.index] = "none"
    THEN [W.open EXCEPT ![event.index] = event.kind]
    ELSE IF event.type \in {"content_block_stop", "contentBlockStop"}
    THEN [W.open EXCEPT ![event.index] = "none"]
    ELSE W.open

\* how far the wire events follow content_block_start(0, text),
\* content_block_delta(0, "Hi"), content_block_stop(0),
\* message_delta(end_turn); -1 once they do not
scriptAfter(W, event) ==
    IF \/ W.script = 0 /\ event.type = "content_block_start" /\ event.index = 0
                       /\ event.kind = "text"
       \/ W.script = 1 /\ event.type = "content_block_delta" /\ event.index = 0
       \/ W.script = 2 /\ event.type = "content_block_stop" /\ event.index = 0
       \/ W.script = 3 /\ event.type = "message_delta" /\ event.stop_reason = "end_turn"
    THEN W.script + 1
    ELSE -1

\* a wire event arrives and is handled
deliverWire(W, event) ==
    LET W1 == onWire(W, event)
    IN  [W1 EXCEPT !.n = @ + 1,
                   !.begun = TRUE,
                   !.open = openAfter(W, event),
                   !.seen = IF \/ event.type \in {"message_start", "message_delta"}
                               \/ event.type = "metadata" /\ event.kind = "usage"
                            THEN Append(@, event.usage) ELSE @,
                   !.script = scriptAfter(W, event)]

\* the response stream fails with an error: inside streamAnthropic's
\* operation executeWithRetry decides, elsewhere the catch block runs
failWire(W, message) ==
    IF /\ W.adapter = "anthropic"
       /\ retryable(RequestPolicy("anthropic", W.hasSignal),
                    [kind |-> "Error", message |-> message, code |-> ""], W.attempt)
       /\ W.attempt < RequestPolicy("anthropic", W.hasSignal).maxAttempts
    THEN [W EXCEPT !.attempt = @ + 1, !.open = [k \in WireIndexes |-> "none"]]
    ELSE wireCatch(W, FALSE, message)

-----------------------------------------------------------------------------
(* Agent: prompt, continue and the run loop *)

MaxCalls == 2

ToolCallIds == {"call-1"}

\* state.streamMessage and the local partial: null, an assistant message
\* whose content is only empty blocks, an assistant message with content
PartialMessages == {"onlyEmpty", "content"}

MessageRoles == {"user", "assistant"}

\* the events the loop's stream yields, as far as the switch reads them;
\* "turn_start" stands for the events the switch has no case for
AgentEvents ==
    {[type |-> t, message |-> m, role |-> "assistant", toolCallId |-> "",
      errorMessage |-> FALSE] :
        t \in {"message_start", "message_update"}, m \in PartialMessages}
    \cup {[type |-> "message_end", message |-> "content", role |-> r, toolCallId |-> "",
           errorMessage |-> FALSE] : r \in MessageRoles}
    \cup {[type |-> t, message |-> "null", role |-> "", toolCallId |-> id,
           errorMessage |-> FALSE] :
            t \in {"tool_execution_start", "tool_execution_end"}, id \in ToolCallIds}
    \cup {[type |-> "turn_end", message |-> "content", role |-> "assistant",
           toolCallId |-> "", errorMessage |-> e] : e \in BOOLEAN}
    \cup {[type |-> t, message |-> "null", role |-> "", toolCallId |-> "",
           errorMessage |-> FALSE] : t \in {"agent_end", "turn_start"}}

\* what a subscribed listener does when it is called with an event
ListenerMoves == {"returns", "prompt", "continue", "abort", "waitForIdle", "throws"}

\* a new Agent. Of _state, messages is kept as the role of its last message
\* ("none" when empty) and error as whether it is set. A runningPrompt
\* promise carries the number of the call that made it, and so does the
\* resolver; abortController is <<>> or <<signal.aborted>>. awaited are the
\* promises waitForIdle returned that are not resolved yet; loops are the
\* _runLoop calls that have not settled, each with its local partial; made
\* counts the prompt()/continue() calls and thrown is what the last one threw
\* before it reached _runLoop.
Agent ==
    [isStreaming |-> FALSE, streamMessage |-> "null", pendingToolCalls |-> {},
     error |-> FALSE, lastMessageRole |-> "none",
     runningPrompt |-> <<>>, resolveRunningPrompt |-> <<>>, abortController |-> <<>>,
     awaited |-> {}, loops |-> {}, made |-> 0, thrown |-> <<>>]

Running(A) == {l.call : l \in A.loops}

partialOf(A, c) == (CHOOSE l \in A.loops : l.call = c).partial

setPartial(A, c, partial) ==
    [A EXCEPT !.loops = {IF l.call = c THEN [l EXCEPT !.partial = partial] ELSE l :
                            l \in A.loops}]

\* a call that throws before it reaches _runLoop
rejectCall(A, message) ==
    [A EXCEPT !.made = @ + 1, !.thrown = <<message>>]

\* _runLoop up to its first await: the promise, the controller, the flags
runLoop(A) ==
    LET call == A.made + 1
    IN  [A EXCEPT !.runningPrompt = <<call>>,
                  !.resolveRunningPrompt = <<call>>,
                  !.abortController = <<FALSE>>,
                  !.isStreaming = TRUE,
                  !.streamMessage = "null",
                  !.error = FALSE,
                  !.loops = @ \cup {[call |-> call, partial |-> "null"]},
                  !.made = call,
                  !.thrown = <<>>]

prompt(A) ==
    IF A.isStreaming THEN rejectCall(A, "already processing")
    ELSE runLoop(A)

continue(A) ==
    IF A.isStreaming THEN rejectCall(A, "already processing")
    ELSE IF A.lastMessageRole = "none"
    THEN rejectCall(A, "No messages to continue from")
    ELSE IF A.lastMessageRole = "assistant"
    THEN rejectCall(A, "Cannot continue from message role: assistant")
    ELSE runLoop(A)

abort(A) ==
    IF A.abortController = <<>> THEN A
    ELSE [A EXCEPT !.abortController = <<TRUE>>]

\* waitForIdle: the promise of the run in progress, or a resolved one
waitForIdle(A) ==
    IF A.runningPrompt = <<>> THEN A
    ELSE [A EXCEPT !.awaited = @ \cup {A.runningPrompt[1]}]

\* this.abortController?.signal.aborted
controllerAborted(A) == A.abortController = <<TRUE>>

\* AgentEventBus.emit with one listener that makes the given move and returns
emit(A, move) ==
    CASE move = "prompt" -> prompt(A)
      [] move = "continue" -> continue(A)
      [] move = "abort" -> abort(A)
      [] move = "waitForIdle" -> waitForIdle(A)
      [] OTHER -> A

\* the switch of the for-await body of call c
handleEvent(A, c, event) ==
    CASE event.type \in {"message_start", "message_update"} ->
            [setPartial(A, c, event.message) EXCEPT !.streamMessage = event.message]
      [] event.type = "message_end" ->
            [setPartial(A, c, "null") EXCEPT !.streamMessage = "null",
                                             !.lastMessageRole = event.role]
      [] event.type = "tool_execution_start" ->
            [A EXCEPT !.pendingToolCalls = @ \cup {event.toolCallId}]
      [] event.type = "tool_execution_end" ->
            [A EXCEPT !.pendingToolCalls = @ \ {event.toolCallId}]
      [] event.type = "turn_end" ->
            IF event.role = "assistant" /\ event.errorMessage
            THEN [A EXCEPT !.error = TRUE]
            ELSE A
      [] event.type = "agent_end" ->
            [A EXCEPT !.isStreaming = FALSE, !.streamMessage = "null"]
      [] OTHER -> A

\* the finally block of _runLoop, after which call c settles
finallyBlock(A, c) ==
    [A EXCEPT !.isStreaming = FALSE,
              !.streamMessage = "null",
              !.pendingToolCalls = {},
              !.abortController = <<>>,
              !.awaited = IF A.resolveRunningPrompt = <<>> THEN @
                          ELSE @ \ {A.resolveRunningPrompt[1]},
              !.runningPrompt = <<>>,
              !.resolveRunningPrompt = <<>>,
              !.loops = {l \in @ : l.call # c}]

\* the catch block: the error message is appended, agent_end is emitted to
\* the listener, whose own throw leaves the block; then finally
agentCatch(A, c, move) ==
    finallyBlock(emit([A EXCEPT !.lastMessageRole = "assistant", !.error = TRUE], move), c)

\* the stream yields an event to call c: the switch, then emit
onAgentEvent(A, c, event, move, moveInCatch) ==
    LET A1 == handleEvent(A, c, event)
    IN  IF move = "throws" THEN agentCatch(A1, c, moveInCatch)
        ELSE emit(A1, move)

\* the stream of call c is done: the remaining partial message, then finally
onStreamDone(A, c, moveInCatch) ==
    LET partial == partialOf(A, c)
    IN  IF partial = "content"
        THEN finallyBlock([A EXCEPT !.lastMessageRole = "assistant"], c)
        ELSE IF partial = "onlyEmpty" /\ controllerAborted(A)
        THEN agentCatch(A, c, moveInCatch)
        ELSE finallyBlock(A, c)

-----------------------------------------------------------------------------
(* ProviderRegistry *)

MaxClock == 1

Apis == {"test-a", "test-b"}

SourceIds == {"src-a", "src-b"}

\* the providers callers register: two implementations per api, and one
\* object validateProvider rejects
ApiProviders ==
    {[api |-> api, stream |-> <<f, "stream">>, streamSimple |-> <<f, "streamSimple">>] :
        api \in Apis, f \in {"mock1", "mock2"}}

InvalidProvider ==
    [api |-> "", stream |-> <<"mock1", "stream">>, streamSimple |-> <<"mock1", "streamSimple">>]

\* options of register: those of callers that pass no version, and those
\* registerBuiltIn passes
RegisterApiProviderOptions ==
    [sourceId : Optional(SourceIds), version : {<<>>}, enabled : Optional(BOOLEAN)]
    \cup {[sourceId |-> <<"src-a">>, version |-> <<"ai-refactor-v1">>,
           enabled |-> <<TRUE>>]}

validateProvider(provider) == provider.api # ""

wrapStream(api, stream) == [api |-> api, wraps |-> stream]

wrapStreamSimple(api, streamSimple) == [api |-> api, wraps |-> streamSimple]

\* the models callers pass: one per registered api and one of another api
ModelApis == Apis \cup {"other-api"}

\* a wrapper that hands every model to the function it wraps
callWrapped_noCheck(wrapped, model) ==
    [threw |-> FALSE, message |-> <<>>, called |-> <<wrapped.wraps>>, model |-> model]

\* a call of the function wrapStream / wrapStreamSimple returned: it throws,
\* or calls the function it wraps
callWrapped(wrapped, model) ==
    IF model.api # wrapped.api
    THEN [threw |-> TRUE,
          message |-> <<"Mismatched api:", model.api, "expected", wrapped.api>>,
          called |-> <<>>, model |-> model]
    ELSE [threw |-> FALSE, message |-> <<>>, called |-> <<wrapped.wraps>>, model |-> model]

\* Map.prototype.get / set / delete on the entries kept in insertion order
mapGet(reg, api) ==
    LET found == SelectSeq(reg, LAMBDA e : e.provider.api = api)
    IN  IF found = <<>> THEN <<>> ELSE <<found[1]>>

mapSet(reg, api, entry) ==
    IF mapGet(reg, api) = <<>>
    THEN Append(reg, entry)
    ELSE [i \in DOMAIN reg |-> IF reg[i].provider.api = api THEN entry ELSE reg[i]]

mapDelete(reg, api) == SelectSeq(reg, LAMBDA e : e.provider.api # api)

\* a register that stamps registeredAt on every call
register_resetsRegisteredAt(reg, provider, options, t) ==
    IF ~validateProvider(provider) THEN reg
    ELSE mapSet(reg, provider.api,
                [provider |-> [api |-> provider.api,
                               stream |-> wrapStream(provider.api, provider.stream),
                               streamSimple |->
                                   wrapStreamSimple(provider.api, provider.streamSimple)],
                 metadata |-> [sourceId |-> options.sourceId,
                               version |-> options.version,
                               enabled |-> IF options.enabled = <<>> THEN TRUE
                                           ELSE options.enabled[1],
                               registeredAt |-> t,
                               updatedAt |-> t]])

register(reg, provider, options, t) ==
    IF ~validateProvider(provider) THEN reg
    ELSE LET existing == mapGet(reg, provider.api)
             metadata == [sourceId |-> options.sourceId,
                          version |-> options.version,
                          enabled |-> IF options.enabled = <<>> THEN TRUE
                                      ELSE options.enabled[1],
                          registeredAt |-> IF existing # <<>>
                                           THEN existing[1].metadata.registeredAt
                                           ELSE t,
                          updatedAt |-> t]
         IN  mapSet(reg, provider.api,
                    [provider |-> [api |-> provider.api,
                                   stream |-> wrapStream(provider.api, provider.stream),
                                   streamSimple |->
                                       wrapStreamSimple(provider.api, provider.streamSimple)],
                     metadata |-> metadata])

\* a get that does not look at the enabled flag
get_ignoresEnabled(reg, api) ==
    LET entry == mapGet(reg, api)
    IN  IF entry = <<>> THEN <<>> ELSE <<entry[1].provider>>

\* get: <<>> for undefined
get(reg, api) ==
    LET entry == mapGet(reg, api)
    IN  IF entry = <<>> \/ ~entry[1].metadata.enabled THEN <<>> ELSE <<entry[1].provider>>

getWithMetadata(reg, api) == mapGet(reg, api)

RECURSIVE providersOf(_)
providersOf(entries) ==
    IF entries = <<>> THEN <<>>
    ELSE <<Head(entries).provider>> \o providersOf(Tail(entries))

\* ProviderRegistry.list, under the name of the function that exports it
getApiProviders(reg, includeDisabled) ==
    providersOf(SelectSeq(reg, LAMBDA entry : includeDisabled \/ entry.metadata.enabled))

setEnabled(reg, api, flag, t) ==
    LET entry == mapGet(reg, api)
    IN  IF entry = <<>> THEN reg
        ELSE mapSet(reg, api, [entry[1] EXCEPT !.metadata.enabled = flag,
                                             !.metadata.updatedAt = t])

enable(reg, api, t) == setEnabled(reg, api, TRUE, t)

disable(reg, api, t) == setEnabled(reg, api, FALSE, t)

\* the loop over registry.entries(), entry by entry
RECURSIVE unregisterLoop(_, _, _)
unregisterLoop(reg, entries, sourceId) ==
    IF entries = <<>> THEN reg
    ELSE unregisterLoop(IF Head(entries).metadata.sourceId = <<sourceId>>
                        THEN mapDelete(reg, Head(entries).provider.api)
                        ELSE reg,
                        Tail(entries), sourceId)

\* an unregisterBySource that also drops the entries that have no sourceId
unregisterBySource_dropsUnsourced(reg, sourceId) ==
    SelectSeq(reg, LAMBDA e : e.metadata.sourceId \notin {<<>>, <<sourceId>>})

unregisterBySource(reg, sourceId) == unregisterLoop(reg, reg, sourceId)

clear(reg) == <<>>

RegistryIdle ==
    /\ registry = <<>>
    /\ now = 0
    /\ lastUnregistered = <<>>
    /\ invoked = <<>>

\* no wire loop runs, no manager exists, no pure function is being called
AuxIdle ==
    /\ wire = <<>>
    /\ mgr = <<>>
    /\ fnArgs = <<>>
    /\ fnResult = <<>>
    /\ agent = <<>>

-----------------------------------------------------------------------------
(* The stream driven by arbitrary callers *)

StreamInit ==
    /\ queue = <<>>
    /\ waiting = <<>>
    /\ done = FALSE
    /\ finalResult = <<>>
    /\ history = <<>>
    /\ iter = [c \in Iterators |-> "none"]
    /\ handed = [c \in Iterators |-> [value |-> <<>>, done |-> FALSE]]
    /\ yielded = [c \in Iterators |-> <<>>]
    /\ accepted = <<>>
    /\ pushCount = 0
    /\ ended = FALSE

\* every iterator is one over the stream itself
NoViews ==
    /\ view = [c \in Iterators |-> "direct"]
    /\ viewYielded = [c \in Iterators |-> <<>>]

\* resultWithTimeout has not been called
NoTimeout ==
    /\ timer = "none"
    /\ timedResult = <<>>

InitStream ==
    /\ StreamInit
    /\ NoViews
    /\ NoTimeout
    /\ ParseIdle
    /\ RegistryIdle
    /\ AuxIdle
    /\ historyLimit \in HistoryLimits
    /\ RetryIdle
    /\ XformIdle
    /\ CallIdle

\* a caller pushes an event
Push ==
    /\ pushCount < MaxPush
    /\ \E t \in EventTypes :
         LET event == [type |-> t, seq |-> pushCount + 1,
                       payload |-> IF isComplete([type |-> t]) THEN Message(pushCount + 1)
                                   ELSE Message(0)]
         IN  \E S \in {push(StreamState, event)} : SetStream(S)
    /\ pushCount' = pushCount + 1
    /\ UNCHANGED <<historyLimit, yielded, retryVars, xformVars, callVars, viewVars, timeoutVars,
                   parseVars, registryVars, auxVars>>

\* a caller ends the stream, with or without a result
End ==
    /\ \E r \in {<<>>, <<Message(0)>>} :
         \E S \in {end(StreamState, r)} : SetStream(S)
    /\ UNCHANGED <<historyLimit, yielded, pushCount, retryVars, xformVars, callVars, viewVars, timeoutVars,
                   parseVars, registryVars, auxVars>>

\* a consumer calls next() on its iterator
Next_(c) ==
    /\ iter[c] \in {"none", "idle"}
    /\ IterNext(c)
    /\ UNCHANGED <<done, finalResult, history, historyLimit, accepted, pushCount, ended, retryVars, xformVars, callVars, viewVars, timeoutVars,
                   parseVars, registryVars, auxVars>>

\* the job queue runs the continuation of a resolved waiter
Resume(c) ==
    /\ iter[c] = "resumed"
    /\ IterResume(c)
    /\ UNCHANGED <<queue, waiting, done, finalResult, history, historyLimit,
                   handed, accepted, pushCount, ended, retryVars, xformVars, callVars, viewVars, timeoutVars,
                   parseVars, registryVars, auxVars>>

NextStream ==
    \/ Push
    \/ End
    \/ \E c \in Iterators : Next_(c)
    \/ \E c \in Iterators : Resume(c)

SpecStream == InitStream /\ [][NextStream]_vars

-----------------------------------------------------------------------------
(* The stream with one consumer and a caller of resultWithTimeout *)

InitTimeout ==
    /\ StreamInit
    /\ NoViews
    /\ NoTimeout
    /\ ParseIdle
    /\ RegistryIdle
    /\ AuxIdle
    /\ historyLimit = 0
    /\ RetryIdle
    /\ XformIdle
    /\ CallIdle

\* resultWithTimeout(timeoutMs): arm the timer, attach to result()
ResultWithTimeout ==
    /\ timedResult = <<>>
    /\ timer' = "armed"
    /\ timedResult' = <<PendingTimedResult>>
    /\ UNCHANGED <<streamVars, retryVars, xformVars, callVars, viewVars,
                   parseVars, registryVars, auxVars>>

\* the job queue runs the then-callback once result() is resolved
ResultThen ==
    /\ timedResult # <<>>
    /\ ~timedResult[1].notified
    /\ finalResult # <<>>
    /\ timer' = IF timer = "armed" THEN "cleared" ELSE timer
    /\ timedResult' = <<onResult(timedResult[1], finalResult[1])>>
    /\ UNCHANGED <<streamVars, retryVars, xformVars, callVars, viewVars,
                   parseVars, registryVars, auxVars>>

\* the timer fires; a timer task runs only when the job queue is empty, so
\* not while the then-callback of a resolved result() is still to run
TimerFires ==
    /\ timer = "armed"
    /\ finalResult = <<>>
    /\ \E R \in {onTimeout(StreamState, timedResult[1])} :
         /\ SetStream(R.stream)
         /\ timedResult' = <<R.timed>>
    /\ timer' = "fired"
    /\ UNCHANGED <<historyLimit, yielded, pushCount, retryVars, xformVars, callVars, viewVars,
                   parseVars, registryVars, auxVars>>

NextTimeout ==
    \/ Push
    \/ End
    \/ Next_(1)
    \/ Resume(1)
    \/ ResultWithTimeout
    \/ ResultThen
    \/ TimerFires

SpecTimeout == InitTimeout /\ [][NextTimeout]_vars

-----------------------------------------------------------------------------
(* The stream iterated directly and through filter and map views *)

Rank(kind) == CASE kind = "direct" -> 1 [] kind = "filter" -> 2 [] kind = "map" -> 3

\* the iterators are interchangeable: one assignment of kinds per multiset,
\* with as many different kinds as the number of iterators allows
ViewAssignments ==
    {v \in [Iterators -> ViewKinds] :
        /\ \A c \in Iterators, e \in Iterators : c < e => Rank(v[c]) <= Rank(v[e])
        /\ Cardinality({v[c] : c \in Iterators})
             = (IF NumIter < Cardinality(ViewKinds) THEN NumIter ELSE Cardinality(ViewKinds))}

InitViews ==
    /\ StreamInit
    /\ view \in ViewAssignments
    /\ viewYielded = [c \in Iterators |-> <<>>]
    /\ NoTimeout
    /\ ParseIdle
    /\ RegistryIdle
    /\ AuxIdle
    /\ historyLimit = 0
    /\ RetryIdle
    /\ XformIdle
    /\ CallIdle

\* what the view yields when its iteration of the stream has yielded an event
ViewYield(c) ==
    viewYielded' = [viewYielded EXCEPT ![c] =
                      IF yielded'[c] = yielded[c] THEN @
                      ELSE viewStep(view[c], @, yielded'[c][Len(yielded'[c])])]

\* the generator of iterator c runs its loop: for a next() call of the
\* consumer, or, in a filter view, on its own after an event it has skipped
ViewNext(c) ==
    /\ iter[c] \in {"none", "idle"}
    /\ IterNext(c)
    /\ ViewYield(c)
    /\ UNCHANGED <<done, finalResult, history, historyLimit, accepted, pushCount, ended,
                   view, retryVars, xformVars, callVars, timeoutVars,
                   parseVars, registryVars, auxVars>>

\* the job queue runs the continuation of a resolved waiter
ViewResume(c) ==
    /\ iter[c] = "resumed"
    /\ IterResume(c)
    /\ ViewYield(c)
    /\ UNCHANGED <<queue, waiting, done, finalResult, history, historyLimit,
                   handed, accepted, pushCount, ended, view, retryVars, xformVars,
                   callVars, timeoutVars,
                   parseVars, registryVars, auxVars>>

NextViews ==
    \/ Push
    \/ End
    \/ \E c \in Iterators : ViewNext(c)
    \/ \E c \in Iterators : ViewResume(c)

SpecViews == InitViews /\ [][NextViews]_vars

-----------------------------------------------------------------------------
(* parseStreamingJsonWithDiagnostics called with an arbitrary input *)

InitParse ==
    /\ StreamInit
    /\ NoViews
    /\ NoTimeout
    /\ historyLimit = 0
    /\ RetryIdle
    /\ XformIdle
    /\ CallIdle
    /\ RegistryIdle
    /\ AuxIdle
    /\ parseInput \in PartialJsonInputs
    /\ parseOptions \in StreamingJsonParseOptions
    /\ partialOutcome \in PartialOutcomes
    /\ parseResult = <<>>

ParseCall ==
    /\ parseResult = <<>>
    /\ parseResult' = <<parseStreamingJsonWithDiagnostics(parseInput, parseOptions,
                                                           partialOutcome)>>
    /\ UNCHANGED <<parseInput, parseOptions, partialOutcome, streamVars, retryVars,
                   xformVars, callVars, viewVars, timeoutVars, registryVars, auxVars>>

NextParse == ParseCall

SpecParse == InitParse /\ [][NextParse]_vars

-----------------------------------------------------------------------------
(* A ProviderRegistry used by arbitrary callers *)

InitRegistry ==
    /\ StreamInit
    /\ NoViews
    /\ NoTimeout
    /\ historyLimit = 0
    /\ RetryIdle
    /\ XformIdle
    /\ CallIdle
    /\ ParseIdle
    /\ RegistryIdle
    /\ AuxIdle

RegistryFrame ==
    UNCHANGED <<streamVars, retryVars, xformVars, callVars, viewVars, timeoutVars,
                parseVars, auxVars>>

Register ==
    /\ \E provider \in ApiProviders \cup {InvalidProvider},
          options \in RegisterApiProviderOptions :
            registry' = register(registry, provider, options, now)
    /\ lastUnregistered' = <<>>
    /\ UNCHANGED <<now, invoked>>
    /\ RegistryFrame

Enable ==
    /\ \E api \in Apis : registry' = enable(registry, api, now)
    /\ lastUnregistered' = <<>>
    /\ UNCHANGED <<now, invoked>>
    /\ RegistryFrame

Disable ==
    /\ \E api \in Apis : registry' = disable(registry, api, now)
    /\ lastUnregistered' = <<>>
    /\ UNCHANGED <<now, invoked>>
    /\ RegistryFrame

UnregisterBySource ==
    /\ \E sourceId \in SourceIds \cup {"src-c"} :
          /\ registry' = unregisterBySource(registry, sourceId)
          /\ lastUnregistered' = <<sourceId>>
    /\ UNCHANGED <<now, invoked>>
    /\ RegistryFrame

Clear ==
    /\ registry' = clear(registry)
    /\ lastUnregistered' = <<>>
    /\ UNCHANGED <<now, invoked>>
    /\ RegistryFrame

\* time passes between two calls
Tick ==
    /\ now < MaxClock
    /\ now' = now + 1
    /\ UNCHANGED <<registry, lastUnregistered, invoked>>
    /\ RegistryFrame

NextRegistry == Register \/ Enable \/ Disable \/ UnregisterBySource \/ Clear \/ Tick

SpecRegistry == InitRegistry /\ [][NextRegistry]_vars

-----------------------------------------------------------------------------
(* Providers registered and then called with arbitrary models *)

\* a caller gets a provider of the registry and calls one of its functions
Invoke ==
    /\ \E api \in Apis, model \in [api : ModelApis], method \in {"stream", "streamSimple"} :
          /\ get(registry, api) # <<>>
          /\ invoked' = <<callWrapped(IF method = "stream"
                                       THEN get(registry, api)[1].stream
                                       ELSE get(registry, api)[1].streamSimple,
                                       model)>>
    /\ UNCHANGED <<registry, now, lastUnregistered>>
    /\ RegistryFrame

NextInvoke == Register \/ Disable \/ Invoke

SpecInvoke == InitRegistry /\ [][NextInvoke]_vars

-----------------------------------------------------------------------------
(* isContextOverflow called with an arbitrary message *)

InitOverflow ==
    /\ StreamInit
    /\ NoViews
    /\ NoTimeout
    /\ historyLimit = 0
    /\ RetryIdle
    /\ XformIdle
    /\ CallIdle
    /\ ParseIdle
    /\ RegistryIdle
    /\ wire = <<>>
    /\ mgr = <<>>
    /\ fnArgs \in [message : OverflowMessages, contextWindow : ContextWindows]
    /\ fnResult = <<>>
    /\ agent = <<>>

PureFrame ==
    UNCHANGED <<streamVars, retryVars, xformVars, callVars, viewVars, timeoutVars,
                parseVars, registryVars, wire, mgr, fnArgs, agent>>

IsContextOverflowCall ==
    /\ fnResult = <<>>
    /\ fnResult' = <<isContextOverflow(fnArgs.message, fnArgs.contextWindow)>>
    /\ PureFrame

NextOverflow == IsContextOverflowCall

SpecOverflow == InitOverflow /\ [][NextOverflow]_vars

-----------------------------------------------------------------------------
(* A StreamingStateManager used by arbitrary callers *)

InitManager ==
    /\ StreamInit
    /\ NoViews
    /\ NoTimeout
    /\ historyLimit = 0
    /\ RetryIdle
    /\ XformIdle
    /\ CallIdle
    /\ ParseIdle
    /\ RegistryIdle
    /\ wire = <<>>
    /\ mgr = <<StreamingStateManager([stopReason |-> "stop", errorMessage |-> <<>>,
                                      usage |-> [input |-> 0, output |-> 0]])>>
    /\ fnArgs = <<>>
    /\ fnResult = <<>>
    /\ agent = <<>>

ManagerFrame ==
    UNCHANGED <<streamVars, retryVars, xformVars, callVars, viewVars, timeoutVars,
                parseVars, registryVars, wire, fnArgs, fnResult, agent>>

SetUsage ==
    /\ \E update \in [input : Optional({1, 2}), output : Optional({1})] :
          mgr' = <<setUsage(mgr[1], update)>>
    /\ ManagerFrame

SetStopReason ==
    /\ \E reason \in StopReasons : mgr' = <<setStopReason(mgr[1], reason)>>
    /\ ManagerFrame

Complete ==
    /\ mgr' = <<complete(mgr[1])>>
    /\ ManagerFrame

ErrorCall ==
    /\ \E errorMessage \in {"boom", "rate limit exceeded"} :
          mgr' = <<managerError(mgr[1], errorMessage)>>
    /\ ManagerFrame

NextManager == SetUsage \/ SetStopReason \/ Complete \/ ErrorCall

SpecManager == InitManager /\ [][NextManager]_vars

-----------------------------------------------------------------------------
(* normalizeProviderError called on an arbitrary error, then on its result *)

ProviderErrorCodes == {"rate_limit", "timeout", "network", "validation", "auth", "unknown"}

\* an Error with any of the messages, an already normalized error whose
\* code need not be the one its message would get, or a value that is no
\* Error
NormalizeInputs ==
    [kind : {"Error"}, message : ErrorMessages \cup DOMAIN MixedKeywordsOf, code : {""}]
    \cup {SimpleOptionsProviderError(m, c) :
            m \in {"quota", "network error", "Forbidden"}, c \in ProviderErrorCodes}
    \cup {[kind |-> "value", message |-> "", code |-> ""]}

InitNormalize ==
    /\ StreamInit
    /\ NoViews
    /\ NoTimeout
    /\ historyLimit = 0
    /\ RetryIdle
    /\ XformIdle
    /\ CallIdle
    /\ ParseIdle
    /\ RegistryIdle
    /\ wire = <<>>
    /\ mgr = <<>>
    /\ fnArgs \in NormalizeInputs
    /\ fnResult = <<>>
    /\ agent = <<>>

NormalizeCall ==
    /\ fnResult = <<>>
    /\ fnResult' = <<normalizeProviderError(fnArgs)>>
    /\ PureFrame

NormalizeAgain ==
    /\ Len(fnResult) = 1
    /\ fnResult' = Append(fnResult, normalizeProviderError(fnResult[1]))
    /\ PureFrame

NextNormalize == NormalizeCall \/ NormalizeAgain

SpecNormalize == InitNormalize /\ [][NextNormalize]_vars

-----------------------------------------------------------------------------
(* The wire loop of a provider stream function fed legal wire events *)

InitWire ==
    /\ StreamInit
    /\ NoViews
    /\ NoTimeout
    /\ historyLimit = 0
    /\ RetryIdle
    /\ XformIdle
    /\ CallIdle
    /\ ParseIdle
    /\ RegistryIdle
    /\ wire \in {WireCall(provider, signalGiven) :
                    provider \in WireAdapters, signalGiven \in BOOLEAN}
    /\ mgr = <<>>
    /\ fnArgs = <<>>
    /\ fnResult = <<>>
    /\ agent = <<>>

WireFrame ==
    UNCHANGED <<streamVars, retryVars, xformVars, callVars, viewVars, timeoutVars,
                parseVars, registryVars, mgr, fnArgs, fnResult, agent>>

\* the server sends the next event
WireArrives ==
    /\ wire.pc = "loop"
    /\ wire.n < MaxWireEvents
    /\ \E event \in LegalWireEvents(wire) : wire' = deliverWire(wire, event)
    /\ WireFrame

\* the response stream throws
WireFails ==
    /\ wire.pc = "loop"
    /\ \E message \in {"network error", "Service Unavailable"} : wire' = [failWire(wire, message) EXCEPT !.script = -1]
    /\ WireFrame

\* the caller aborts the signal and the response stream throws
WireAborted ==
    /\ wire.pc = "loop"
    /\ wire.hasSignal
    /\ wire' = [wireCatch(wire, TRUE, "Request was aborted") EXCEPT !.script = -1]
    /\ WireFrame

\* the response stream ends, with no block left open
WireEnds ==
    /\ wire.pc = "loop"
    /\ wire.begun
    /\ \A k \in WireIndexes : wire.open[k] = "none"
    /\ wire' = [wireFinish(wire) EXCEPT !.script = IF @ = 4 THEN 5 ELSE -1]
    /\ WireFrame

NextWire == WireArrives \/ WireFails \/ WireAborted \/ WireEnds

SpecWire == InitWire /\ [][NextWire]_vars

-----------------------------------------------------------------------------
(* executeWithRetry called with an arbitrary policy and operation *)

MaxAttemptsBound == 3
BaseDelays == {250, 300}
MaxDelays == {0, 400}

Policies == [maxAttempts : 0..MaxAttemptsBound, baseDelayMs : BaseDelays,
             maxDelayMs : MaxDelays, shouldRetry : ShouldRetryKinds]

InitRetry ==
    /\ StreamInit
    /\ NoViews
    /\ NoTimeout
    /\ ParseIdle
    /\ RegistryIdle
    /\ AuxIdle
    /\ historyLimit = 0
    /\ policy \in Policies
    /\ rpc = "head"
    /\ attempt = 0
    /\ lastError = <<>>
    /\ opCalls = 0
    /\ failures = <<>>
    /\ delays = <<>>
    /\ thrown = <<>>
    /\ XformIdle
    /\ CallIdle

LoopHead ==
    /\ rpc = "head"
    /\ RetryLoopHead
    /\ UNCHANGED <<policy, streamVars, xformVars, callVars, viewVars, timeoutVars,
                   parseVars, registryVars, auxVars>>

OperationResolves ==
    /\ rpc = "operation"
    /\ RetryOperationResolves
    /\ UNCHANGED <<policy, streamVars, xformVars, callVars, viewVars, timeoutVars,
                   parseVars, registryVars, auxVars>>

OperationRejects ==
    /\ rpc = "operation"
    /\ \E error \in RawErrors : RetryOperationRejects(error)
    /\ UNCHANGED <<policy, streamVars, xformVars, callVars, viewVars, timeoutVars,
                   parseVars, registryVars, auxVars>>

\* the timer of the backoff delay fires
BackoffElapsed ==
    /\ rpc = "backoff"
    /\ rpc' = "head"
    /\ UNCHANGED <<policy, attempt, lastError, opCalls, failures, delays, thrown, streamVars, xformVars, callVars, viewVars, timeoutVars,
                   parseVars, registryVars, auxVars>>

NextRetry ==
    \/ LoopHead
    \/ OperationResolves
    \/ OperationRejects
    \/ BackoffElapsed

SpecRetry == InitRetry /\ [][NextRetry]_vars

-----------------------------------------------------------------------------
(* transformMessages called on an arbitrary history, then on its own output *)

MaxMsgs == 3

\* the tool calls of an assistant message: distinct ids in a fixed order
Contents == {<<>>} \cup {<<ToolCall(i)>> : i \in Ids}
            \cup {<<ToolCall("orig"), ToolCall("norm-orig")>>}

InputMessages ==
    {UserMessage}
    \cup {ToolResultMessage(i, "search", "ok", FALSE) : i \in Ids}
    \cup {AssistantMessage(m, "toolUse", c) : m \in {TargetModel, OtherModel}, c \in Contents}
    \cup {AssistantMessage(m, sr, c) :
            m \in {TargetModel, OtherModel}, sr \in {"error", "aborted"},
            c \in {<<ToolCall("orig")>>}}

InitXform ==
    /\ StreamInit
    /\ NoViews
    /\ NoTimeout
    /\ ParseIdle
    /\ RegistryIdle
    /\ AuxIdle
    /\ historyLimit = 0
    /\ RetryIdle
    /\ messages \in UNION {[1..n -> InputMessages] : n \in 0..MaxMsgs}
    /\ normalizer \in Normalizers
    /\ transformed = <<>>
    /\ retransformed = <<>>
    /\ CallIdle

\* transformMessages(messages, model, normalizeToolCallId)
Transform ==
    /\ transformed = <<>>
    /\ transformed' = transformMessages(messages, TargetModel, normalizer)
    /\ UNCHANGED <<messages, normalizer, retransformed, streamVars, retryVars, callVars, viewVars, timeoutVars,
                   parseVars, registryVars, auxVars>>

\* transformMessages on the list the first call returned
TransformAgain ==
    /\ transformed # <<>>
    /\ retransformed = <<>>
    /\ retransformed' = transformMessages(transformed[1], TargetModel, normalizer)
    /\ UNCHANGED <<messages, normalizer, transformed, streamVars, retryVars, callVars, viewVars, timeoutVars,
                   parseVars, registryVars, auxVars>>

NextXform ==
    \/ Transform
    \/ TransformAgain

SpecXform == InitXform /\ [][NextXform]_vars

-----------------------------------------------------------------------------
(* A call of a provider stream function, with the caller's signal *)

signalAborted == hasSignal /\ aborted

InitCall ==
    /\ StreamInit
    /\ NoViews
    /\ NoTimeout
    /\ ParseIdle
    /\ RegistryIdle
    /\ AuxIdle
    /\ historyLimit = 0
    /\ RetryIdle
    /\ XformIdle
    /\ adapter \in Adapters
    /\ hasSignal \in BOOLEAN
    /\ aborted \in BOOLEAN
    /\ aborted => hasSignal
    /\ abortedAtEntry = FALSE
    /\ cpc = "setup"
    /\ output = createAssistantMessageOutput(adapter)
    /\ wireCount = 0

\* the caller aborts the signal; once the call has ended no code of it reads
\* the signal any more
Abort ==
    /\ hasSignal
    /\ ~aborted
    /\ cpc # "ended"
    /\ aborted' = TRUE
    /\ UNCHANGED <<adapter, hasSignal, abortedAtEntry, cpc, output, wireCount,
                   streamVars, retryVars, xformVars, viewVars, timeoutVars,
                   parseVars, registryVars, auxVars>>

\* the code from the head of the try block to the call of executeWithRetry:
\* client and request are built, onPayload is called, streamAnthropic pushes
\* the start event
Setup ==
    /\ cpc = "setup"
    /\ \E C \in {IF adapter = "anthropic" THEN callPush(CallState, "start", "") ELSE CallState} : SetCall(C)
    /\ policy' = IF adapter = "openai-responses"
                 THEN executeOpenAIRequest(RequestPolicy(adapter, hasSignal))
                 ELSE RequestPolicy(adapter, hasSignal)
    /\ rpc' = "head"
    /\ abortedAtEntry' = signalAborted
    /\ cpc' = "request"
    /\ UNCHANGED <<adapter, hasSignal, aborted, wireCount, historyLimit, yielded,
                   attempt, lastError, opCalls, failures, delays, thrown, xformVars, viewVars, timeoutVars,
                   parseVars, registryVars, auxVars>>

\* that code throws before the request is made
SetupThrows ==
    /\ cpc = "setup"
    /\ \E m \in SetupErrors(adapter) : \E C \in {catchBlock(CallState, signalAborted, m)} : SetCall(C)
    /\ cpc' = "ended"
    /\ UNCHANGED <<adapter, hasSignal, aborted, abortedAtEntry, wireCount, historyLimit,
                   yielded, retryVars, xformVars, viewVars, timeoutVars,
                   parseVars, registryVars, auxVars>>

\* executeWithRetry: the head of its loop
RequestAttempt ==
    /\ cpc = "request"
    /\ rpc = "head"
    /\ RetryLoopHead
    /\ UNCHANGED <<policy, streamVars, callVars, xformVars, viewVars, timeoutVars,
                   parseVars, registryVars, auxVars>>

\* the request rejects, or for streamAnthropic the iteration of the wire
\* inside the operation does: the catch block of executeWithRetry
RequestRejects ==
    /\ cpc = "request"
    /\ rpc = "operation"
    /\ \E error \in RequestErrors : RetryOperationRejects(error)
    /\ UNCHANGED <<policy, streamVars, callVars, xformVars, viewVars, timeoutVars,
                   parseVars, registryVars, auxVars>>

RequestBackoffElapsed ==
    /\ cpc = "request"
    /\ rpc = "backoff"
    /\ rpc' = "head"
    /\ UNCHANGED <<policy, attempt, lastError, opCalls, failures, delays, thrown,
                   streamVars, callVars, xformVars, viewVars, timeoutVars,
                   parseVars, registryVars, auxVars>>

\* executeWithRetry has thrown: the catch block of the stream function
RequestThrew ==
    /\ cpc = "request"
    /\ rpc = "threw"
    /\ \E C \in {catchBlock(CallState, signalAborted, thrown[1].message)} : SetCall(C)
    /\ cpc' = "ended"
    /\ UNCHANGED <<adapter, hasSignal, aborted, abortedAtEntry, wireCount, historyLimit,
                   yielded, retryVars, xformVars, viewVars, timeoutVars,
                   parseVars, registryVars, auxVars>>

\* the request of streamOpenAIResponses, streamBedrock or streamKimi resolves
\* with a response whose stream the wire loop then reads
RequestResolves ==
    /\ cpc = "request"
    /\ rpc = "operation"
    /\ adapter # "anthropic"
    /\ RetryOperationResolves
    /\ \E C \in {IF adapter = "bedrock" THEN CallState ELSE callPush(CallState, "start", "")} : SetCall(C)
    /\ cpc' = "wire"
    /\ UNCHANGED <<adapter, hasSignal, aborted, abortedAtEntry, wireCount, historyLimit,
                   yielded, policy, xformVars, viewVars, timeoutVars,
                   parseVars, registryVars, auxVars>>

\* streamKimi: the response is not ok, or it is and has no body
ResponseRefused ==
    /\ cpc = "request"
    /\ rpc = "operation"
    /\ adapter = "kimi"
    /\ RetryOperationResolves
    /\ \/ \E C \in {catchBlock(CallState, signalAborted, "Kimi API error: 500")} : SetCall(C)
       \/ \E C \in {catchBlock(callPush(CallState, "start", ""), signalAborted, "No response body")} : SetCall(C)
    /\ cpc' = "ended"
    /\ UNCHANGED <<adapter, hasSignal, aborted, abortedAtEntry, wireCount, historyLimit,
                   yielded, policy, xformVars, viewVars, timeoutVars,
                   parseVars, registryVars, auxVars>>

\* the wire loop is running: inside the operation for streamAnthropic, after
\* the request for the others
InWire ==
    IF adapter = "anthropic" THEN cpc = "request" /\ rpc = "operation" ELSE cpc = "wire"

\* the wire loop handles the next item
WireItem ==
    /\ InWire
    /\ wireCount < MaxWire
    /\ \E item \in WireItems(adapter) : \E C \in {wireStep(CallState, adapter, item)} : SetCall(C)
    /\ wireCount' = wireCount + 1
    /\ UNCHANGED <<adapter, hasSignal, aborted, abortedAtEntry, cpc, historyLimit,
                   yielded, retryVars, xformVars, viewVars, timeoutVars,
                   parseVars, registryVars, auxVars>>

\* the wire loop of streamOpenAIResponses, streamBedrock or streamKimi throws
WireThrows ==
    /\ cpc = "wire"
    /\ \E m \in WireErrors(adapter) : \E C \in {catchBlock(CallState, signalAborted, m)} : SetCall(C)
    /\ cpc' = "ended"
    /\ UNCHANGED <<adapter, hasSignal, aborted, abortedAtEntry, wireCount, historyLimit,
                   yielded, retryVars, xformVars, viewVars, timeoutVars,
                   parseVars, registryVars, auxVars>>

\* streamAnthropic: the wire is exhausted and the operation resolves
OperationCompletes ==
    /\ adapter = "anthropic"
    /\ cpc = "request"
    /\ rpc = "operation"
    /\ RetryOperationResolves
    /\ UNCHANGED <<policy, streamVars, callVars, xformVars, viewVars, timeoutVars,
                   parseVars, registryVars, auxVars>>

\* the code after the wire loop
TerminalTransition ==
    /\ IF adapter = "anthropic" THEN cpc = "request" /\ rpc = "returned" ELSE cpc = "wire"
    /\ \E C \in {terminalTransition(CallState, adapter, signalAborted)} : SetCall(C)
    /\ cpc' = "ended"
    /\ UNCHANGED <<adapter, hasSignal, aborted, abortedAtEntry, wireCount, historyLimit,
                   yielded, retryVars, xformVars, viewVars, timeoutVars,
                   parseVars, registryVars, auxVars>>

\* the steps of the call itself, which its awaits let run
CallStep ==
    \/ Setup
    \/ SetupThrows
    \/ RequestAttempt
    \/ RequestRejects
    \/ RequestBackoffElapsed
    \/ RequestThrew
    \/ RequestResolves
    \/ ResponseRefused
    \/ WireItem
    \/ WireThrows
    \/ OperationCompletes
    \/ TerminalTransition

NextCall ==
    \/ Abort
    \/ CallStep

SpecCall == InitCall /\ [][NextCall]_vars

\* every promise the call awaits settles: the request, the backoff timer and
\* each read of the wire
FairSpecCall == SpecCall /\ WF_vars(CallStep)

-----------------------------------------------------------------------------
(* An Agent whose callers and listener call it while its loops run *)

InitAgent ==
    /\ StreamInit
    /\ NoViews
    /\ NoTimeout
    /\ historyLimit = 0
    /\ RetryIdle
    /\ XformIdle
    /\ CallIdle
    /\ ParseIdle
    /\ RegistryIdle
    /\ wire = <<>>
    /\ mgr = <<>>
    /\ fnArgs = <<>>
    /\ fnResult = <<>>
    /\ agent = Agent

AgentFrame ==
    UNCHANGED <<streamVars, retryVars, xformVars, callVars, viewVars, timeoutVars,
                parseVars, registryVars, wire, mgr, fnArgs, fnResult>>

\* the moves of a listener that the bound on calls allows
MovesAt(A) ==
    IF A.made < MaxCalls THEN ListenerMoves
    ELSE ListenerMoves \ {"prompt", "continue"}

\* a caller outside the loops calls prompt
AgentPrompt ==
    /\ agent.made < MaxCalls
    /\ agent' = prompt(agent)
    /\ AgentFrame

AgentContinue ==
    /\ agent.made < MaxCalls
    /\ agent' = continue(agent)
    /\ AgentFrame

AgentAbort ==
    /\ agent' = abort(agent)
    /\ AgentFrame

AgentWaitForIdle ==
    /\ agent' = waitForIdle(agent)
    /\ AgentFrame

\* the stream of a running loop yields its next event
AgentEventArrives ==
    /\ \E c \in Running(agent), event \in AgentEvents,
          move \in MovesAt(agent), moveInCatch \in MovesAt(agent) :
            /\ move # "throws" => moveInCatch = "returns"
            /\ agent' = onAgentEvent(agent, c, event, move, moveInCatch)
    /\ AgentFrame

\* the stream of a running loop is done
AgentStreamDone ==
    /\ \E c \in Running(agent), moveInCatch \in MovesAt(agent) :
            agent' = onStreamDone(agent, c, moveInCatch)
    /\ AgentFrame

\* the stream of a running loop throws
AgentStreamThrows ==
    /\ \E c \in Running(agent), move \in MovesAt(agent) :
            agent' = agentCatch(agent, c, move)
    /\ AgentFrame

NextAgent ==
    \/ AgentPrompt
    \/ AgentContinue
    \/ AgentAbort
    \/ AgentWaitForIdle
    \/ AgentEventArrives
    \/ AgentStreamDone
    \/ AgentStreamThrows

SpecAgent == InitAgent /\ [][NextAgent]_vars

-----------------------------------------------------------------------------
(* Properties of the EventStream *)

\* c is the only iterator that has ever pulled from the stream
OnlyIterator(c) == \A d \in Iterators \ {c} : iter[d] = "none"

\* the event a resolved waiter promise of c carries and c has not yet yielded
InFlight(c) == IF iter[c] = "resumed" /\ ~handed[c].done THEN handed[c].value ELSE <<>>

\* C1: with a single iterator, what it has yielded, then the event handed to
\* it directly, then the buffered queue, is at every moment exactly the
\* sequence of accepted events in push order; so it yields accepted events
\* only, each once, in push order, and when it completes it has yielded all.
C1_SingleIteratorSeesPushOrder ==
    \A c \in Iterators :
        OnlyIterator(c) =>
            /\ yielded[c] \o InFlight(c) \o queue = accepted
            /\ iter[c] = "finished" => yielded[c] = accepted

\* an iterator that got one event directly and the next two from the queue
C1_Witness ==
    \E c \in Iterators :
        /\ OnlyIterator(c)
        /\ iter[c] = "finished"
        /\ Len(yielded[c]) = 3
        /\ yielded[c] = accepted
        /\ handed[c].value = <<accepted[1]>>

\* a terminal event has been accepted, or end() has been called
Terminated == ended \/ \E i \in DOMAIN accepted : isComplete(accepted[i])

\* C3: once a completing event has been accepted or end() has been called, a
\* push() changes nothing: not the history, the queue, the final result, the
\* waiters, nor what any iterator holds or has yielded.
C3_PushAfterTerminalIsNoOp ==
    [][(Terminated /\ pushCount' = pushCount + 1)
        => UNCHANGED <<queue, waiting, done, finalResult, history, iter, handed,
                       yielded, accepted>>]_vars

\* two pushes were dropped after a done event, none was ended
C3_Witness ==
    /\ ~ended
    /\ \E i \in DOMAIN accepted : accepted[i].type = "done"
    /\ pushCount >= Len(accepted) + 2

\* C36: end() drops no accepted event and leaves no consumer blocked.  The
\* call leaves the queue and what was yielded as they are and resolves
\* every waiting consumer with done; after it no consumer waits, an
\* iterator that goes on or starts takes the head of the queue while there
\* is one and completes when there is none, and an iterator has completed
\* only with the queue empty.
C36_EndReleasesAndKeepsBuffered ==
    /\ [][(~ended /\ ended') =>
            /\ queue' = queue
            /\ yielded' = yielded
            /\ accepted' = accepted
            /\ waiting' = <<>>
            /\ \A c \in Iterators :
                  IF iter[c] = "waiting"
                  THEN iter'[c] = "resumed" /\ handed'[c].done
                  ELSE iter'[c] = iter[c] /\ handed'[c] = handed[c]]_vars
    /\ [](ended => (waiting = <<>> /\ \A c \in Iterators : iter[c] # "waiting"))
    /\ [][\A c \in Iterators :
            (ended /\ iter[c] \in {"none", "idle"}
             /\ (iter'[c] # iter[c] \/ yielded'[c] # yielded[c])) =>
                IF queue # <<>>
                THEN /\ yielded'[c] = Append(yielded[c], Head(queue))
                     /\ queue' = Tail(queue)
                     /\ iter'[c] = "idle"
                ELSE iter'[c] = "finished" /\ yielded'[c] = yielded[c]]_vars
    /\ []((ended /\ \E c \in Iterators : iter[c] = "finished") => queue = <<>>)

\* two consumers were waiting on the empty queue when end() was called, after
\* one of them had yielded an event; both were resolved with done and have
\* completed
C36_Witness ==
    \E c, d \in Iterators :
        /\ c # d
        /\ ended
        /\ iter[c] = "finished"
        /\ iter[d] = "finished"
        /\ handed[c].done
        /\ handed[d].done
        /\ yielded[c] # <<>>
        /\ queue = <<>>

-----------------------------------------------------------------------------
(* Properties of the wire loops *)

LastEvent(W) == W.events[Len(W.events)]

\* C23: for the Anthropic adapter, the wire sequence
\* content_block_start(0, text), content_block_delta(0, "Hi"),
\* content_block_stop(0), message_delta(end_turn), after which the response
\* ends, finishes with a done event; the message's content is exactly one
\* block with the fields type "text" and text "Hi" and no others, and its
\* stopReason is "stop".
C23_ScriptedScenarioYieldsHi ==
    (wire.adapter = "anthropic" /\ wire.script = 5) =>
        /\ wire.pc = "ended"
        /\ LastEvent(wire).type = "done"
        /\ \A i \in 1..(Len(wire.events) - 1) : wire.events[i].type \notin {"done", "error"}
        /\ Len(wire.content) = 1
        /\ wire.content[1].type = "text"
        /\ wire.content[1].text = <<"Hi">>
        /\ FieldsOf(wire.content[1]) = {"type", "text"}
        /\ wire.stopReason = "stop"
        /\ wire.errorMessage = <<>>

C23_Witness ==
    /\ wire.adapter = "anthropic"
    /\ wire.script = 5
    /\ [type |-> "text_end", contentIndex |-> 0, wireIndex |-> 0, target |-> 0,
        delta |-> <<>>]
           \in {wire.events[i] : i \in DOMAIN wire.events}

\* C27: in streamAnthropic and streamBedrock the usage counts are those of
\* the most recent usage-bearing wire event (message_start, message_delta,
\* metadata with usage), with 0 for an absent field, never a sum over the
\* events, and usage.cost is the cost computed from those counts; before
\* the first such event the usage is empty.
C27_UsageIsReplacedNotAccumulated ==
    wire.adapter \in {"anthropic", "bedrock"} =>
        IF wire.seen = <<>> THEN wire.usage = createEmptyUsage
        ELSE LET u == wire.seen[Len(wire.seen)]
             IN  /\ wire.usage.input = u.input
                 /\ wire.usage.output = u.output
                 /\ wire.usage.cacheRead = u.cacheRead
                 /\ wire.usage.cacheWrite = u.cacheWrite
                 /\ wire.usage.cost = estimateCost(u)

C27_Witness ==
    /\ wire.adapter = "bedrock"
    /\ Len(wire.seen) >= 2
    /\ wire.seen[Len(wire.seen) - 1] # wire.seen[Len(wire.seen)]
    /\ wire.usage.output = wire.seen[Len(wire.seen)].output
    /\ wire.usage.cost.total > 0
    /\ wire.pc = "ended"

KindOfEvent(type) ==
    CASE type \in {"text_start", "text_delta", "text_end"} -> "text"
      [] type \in {"thinking_start", "thinking_delta", "thinking_end"} -> "thinking"
      [] type \in {"toolcall_start", "toolcall_delta", "toolcall_end"} -> "toolCall"
      [] OTHER -> "none"

IsStartEvent(type) == type \in {"text_start", "thinking_start", "toolcall_start"}

IsEndEvent(type) == type \in {"text_end", "thinking_end", "toolcall_end"}

IsTerminalEvent(type) == type \in {"done", "error"}

\* the events of E that carry the content index c, in order
EventsOfBlock(E, c) ==
    LET RECURSIVE pick(_)
        pick(i) == IF i > Len(E) THEN <<>>
                   ELSE IF E[i].contentIndex = c THEN <<E[i].type>> \o pick(i + 1)
                   ELSE pick(i + 1)
    IN  pick(1)

\* one start, then deltas, then at most one end, all of one kind
BlockLifecycle(types) ==
    types # <<>> =>
        /\ IsStartEvent(types[1])
        /\ \A i \in 2..Len(types) :
              /\ KindOfEvent(types[i]) = KindOfEvent(types[1])
              /\ ~IsStartEvent(types[i])
        /\ \A i \in 1..(Len(types) - 1) : ~IsEndEvent(types[i])

ConformsToCallStateMachine(W) ==
    LET E == W.events
        used == {E[i].contentIndex : i \in DOMAIN E} \ {-1}
    IN  /\ \A i \in DOMAIN E :
              E[i].contentIndex >= 0 => \E j \in 1..(i - 1) : E[j].type = "start"
        /\ \A c \in used : BlockLifecycle(EventsOfBlock(E, c))
        /\ (E # <<>> /\ LastEvent(W).type = "done") =>
              \A c \in used : IsEndEvent(EventsOfBlock(E, c)[Len(EventsOfBlock(E, c))])
        /\ \A i \in 1..(Len(E) - 1) : ~IsTerminalEvent(E[i].type)
        /\ W.pc = "ended" => (E # <<>> /\ IsTerminalEvent(LastEvent(W).type))

\* C28: for the Anthropic, Bedrock and Kimi adapters and every legal wire
\* sequence, the canonical events conform to the per-call state machine:
\* start precedes every block event; the events of each content index are
\* one *_start, then *_delta events, then one *_end, of one kind; every
\* started block is ended before done; a finished call has emitted exactly
\* one terminal event, and it is the last event.
C28_EventsConformToStateMachine == ConformsToCallStateMachine(wire)

\* C29: in streamAnthropic and streamBedrock every block event that a wire
\* event with wire index k produced names, as contentIndex, the position of
\* the block that the most recent block start with wire index k opened, and
\* that block's type is the event's kind; over the whole call, later
\* attempts of the retry executor included.
C29_WireIndexResolvesToLatestBlock ==
    wire.adapter \in {"anthropic", "bedrock"} =>
        \A i \in DOMAIN wire.events :
            LET e == wire.events[i]
            IN  e.wireIndex >= 0 =>
                    /\ e.contentIndex = e.target
                    /\ e.contentIndex + 1 \in DOMAIN wire.content
                    /\ wire.content[e.contentIndex + 1].type = KindOfEvent(e.type)

\* C30: when a call fails or is aborted while blocks are open, no content
\* block of the message carries index or partialJson once the error event
\* is emitted.
C30_ErrorStripsBookkeepingFields ==
    (wire.adapter \in {"anthropic", "bedrock"} /\ wire.pc = "ended"
     /\ LastEvent(wire).type = "error") =>
        \A i \in DOMAIN wire.content :
            FieldsOf(wire.content[i]) \cap {"index", "partialJson"} = {}

\* C31: whenever streamAnthropic or streamBedrock emits done (the response
\* that ended had a stop event for each block it started), no content block
\* of the message carries index or partialJson, whatever earlier attempts of
\* the retry executor delivered.
C31_DoneMessageHasNoBookkeepingFields ==
    (wire.adapter \in {"anthropic", "bedrock"} /\ wire.pc = "ended"
     /\ LastEvent(wire).type = "done") =>
        \A i \in DOMAIN wire.content :
            FieldsOf(wire.content[i]) \cap {"index", "partialJson"} = {}

\* the argument text of a block: the payloads of its toolcall_delta events,
\* concatenated in arrival order
RECURSIVE AccumulatedDeltas(_, _)
AccumulatedDeltas(E, c) ==
    IF E = <<>> THEN <<>>
    ELSE (IF Head(E).contentIndex = c /\ Head(E).type = "toolcall_delta"
          THEN Head(E).delta ELSE <<>>) \o AccumulatedDeltas(Tail(E), c)

\* C32: at every toolcall_end event the block's arguments are the parse of
\* the whole argument text of the block, the concatenation in arrival order
\* of the payloads of its toolcall_delta events (a closed block is not
\* touched again, so the value at the event is the value in the message).
C32_ArgumentsReparsedAtClose ==
    \A i \in DOMAIN wire.events :
        wire.events[i].type = "toolcall_end" =>
            LET c == wire.events[i].contentIndex
            IN  /\ wire.content[c + 1].type = "toolCall"
                /\ wire.content[c + 1].arguments
                       = parseArguments(AccumulatedDeltas(SubSeq(wire.events, 1, i), c))

C32_Witness ==
    \E i \in DOMAIN wire.events :
        /\ wire.events[i].type = "toolcall_end"
        /\ Len(AccumulatedDeltas(SubSeq(wire.events, 1, i), wire.events[i].contentIndex)) > 3
        /\ wire.content[wire.events[i].contentIndex + 1].arguments
               = <<"{", "\"a\"", ":", "1", "}">>

\* C37: for every Anthropic wire stop reason, the stopReason that the
\* message_delta handler stores (the shared mapStopReason of
\* utils/provider-consolidation) is the one the adapter's own mapStopReason
\* table gives: in every state of a streaming Anthropic call, for every
\* message_delta the server may send next.
C37_SharedMapMatchesAdapterTable ==
    (wire.adapter = "anthropic" /\ wire.pc = "loop") =>
        \A event \in LegalWireEvents(wire) :
            (event.type = "message_delta" /\ event.stop_reason \in AnthropicStopReasons) =>
                deliverWire(wire, event).stopReason
                    = anthropicMapStopReason(event.stop_reason)

-----------------------------------------------------------------------------
(* Properties of normalizeProviderError *)

\* the rules in their order: a rule matches when, for one of its
\* alternatives, the message contains every substring of the alternative
ClassificationRules ==
    <<[code |-> "rate_limit", alternatives |-> {{"rate", "limit"}}],
      [code |-> "timeout", alternatives |-> {{"timeout"}, {"timed out"}}],
      [code |-> "network", alternatives |-> {{"network"}, {"fetch"}}],
      [code |-> "auth", alternatives |-> {{"auth"}, {"unauthorized"}, {"forbidden"}}],
      [code |-> "validation", alternatives |-> {{"invalid"}, {"schema"}, {"validation"}}]>>

RuleMatches(rule, m) ==
    \E alternative \in rule.alternatives : \A k \in alternative : includes(m, k)

FirstMatchingCode(m) ==
    LET matching == {r \in DOMAIN ClassificationRules : RuleMatches(ClassificationRules[r], m)}
    IN  IF matching = {} THEN "unknown"
        ELSE ClassificationRules[CHOOSE r \in matching : \A q \in matching : r <= q].code

\* C35: normalizeProviderError gives an Error the code of the first rule, in
\* the order rate_limit, timeout, network, auth, validation, that its
\* lower-cased message matches, unknown when none does, and keeps the
\* message; an already normalized error is returned unchanged, and a second
\* call on the result returns the result.
C35_FirstMatchingRuleClassifies ==
    fnResult # <<>> =>
        /\ fnArgs.kind = "Error" =>
              /\ fnResult[1].kind = "ProviderError"
              /\ fnResult[1].message = fnArgs.message
              /\ fnResult[1].code = FirstMatchingCode(fnArgs.message)
        /\ fnArgs.kind = "ProviderError" => fnResult[1] = fnArgs
        /\ Len(fnResult) = 2 => fnResult[2] = fnResult[1]

\* a message that matches the network rule and the auth rule is network,
\* and stays so on the second call
C35_Witness ==
    /\ fnArgs = [kind |-> "Error", message |-> "Network authentication required", code |-> ""]
    /\ Len(fnResult) = 2
    /\ fnResult[2].code = "network"

-----------------------------------------------------------------------------
(* Properties of executeWithRetry *)

Error(m) == [kind |-> "Error", message |-> m, code |-> ""]

\* the errors of the sample the default policy retries, with the code expected
RetryableSample == {<<"rate limit exceeded", "rate_limit">>,
                    <<"Request timed out", "timeout">>,
                    <<"network error", "network">>}

\* the errors of the sample the default policy does not retry, with the
\* normalized error expected
NonRetryableSample ==
    {<<Error("Unauthorized"), SimpleOptionsProviderError("Unauthorized", "auth")>>,
     <<Error("invalid schema"), SimpleOptionsProviderError("invalid schema", "validation")>>,
     <<Error("Service Unavailable"), SimpleOptionsProviderError("Service Unavailable", "unknown")>>,
     <<Error("Request was aborted"), SimpleOptionsProviderError("Request was aborted", "unknown")>>,
     <<[kind |-> "value", message |-> "", code |-> ""],
       SimpleOptionsProviderError("Unknown provider error", "unknown")>>}

\* C8: with maxAttempts = N >= 1 and no shouldRetry, when every invocation
\* failed with a retryable error and executeWithRetry has thrown, the
\* operation was invoked exactly N times and the error thrown is the last
\* failure normalized (code rate_limit for "rate limit exceeded").
C8_RetryBound ==
    (/\ rpc = "threw"
     /\ policy.shouldRetry = "absent"
     /\ policy.maxAttempts >= 1
     /\ \A i \in DOMAIN failures :
            \E s \in RetryableSample : failures[i] = Error(s[1]))
    => /\ opCalls = policy.maxAttempts
       /\ Len(failures) = policy.maxAttempts
       /\ \E s \in RetryableSample :
            /\ failures[Len(failures)] = Error(s[1])
            /\ thrown = <<SimpleOptionsProviderError(s[1], s[2])>>

\* three attempts, each failing with "rate limit exceeded", base delay 250
C8_Witness ==
    /\ rpc = "threw"
    /\ policy = [maxAttempts |-> 3, baseDelayMs |-> 250, maxDelayMs |-> 0, shouldRetry |-> "absent"]
    /\ failures = <<Error("rate limit exceeded"), Error("rate limit exceeded"),
                    Error("rate limit exceeded")>>
    /\ opCalls = 3
    /\ thrown = <<SimpleOptionsProviderError("rate limit exceeded", "rate_limit")>>

\* C9: with no shouldRetry, a failure classified auth, validation or unknown
\* is the last one: executeWithRetry throws its normalized error at once,
\* without a backoff delay after it; when it is the first failure the
\* operation has been invoked exactly once and no delay was taken at all.
C9_NonRetryableThrowsAtOnce ==
    policy.shouldRetry = "absent" =>
        \A i \in DOMAIN failures :
            \A s \in NonRetryableSample :
                failures[i] = s[1] =>
                    /\ rpc = "threw"
                    /\ i = Len(failures)
                    /\ opCalls = i
                    /\ Len(delays) = i - 1
                    /\ thrown = <<s[2]>>

\* an "Unauthorized" failure on the first of three allowed attempts
C9_Witness ==
    /\ rpc = "threw"
    /\ policy.shouldRetry = "absent"
    /\ policy.maxAttempts = 3
    /\ failures = <<Error("Unauthorized")>>
    /\ opCalls = 1
    /\ delays = <<>>

-----------------------------------------------------------------------------
(* Properties of transformMessages *)

IsSynthetic(msg) ==
    msg.role = "toolResult" /\ msg.content = "No result provided" /\ msg.isError

IsSameModel(msg) ==
    msg.provider = TargetModel.provider /\ msg.api = TargetModel.api /\ msg.model = TargetModel.id

\* the position after i of the next assistant or user message of list, or
\* the position past its end
NextTurn(list, i) ==
    LET later == {j \in (i + 1)..Len(list) : list[j].role \in {"assistant", "user"}}
    IN  IF later = {} THEN Len(list) + 1
        ELSE CHOOSE j \in later : \A k \in later : j <= k

\* the results for call id in the turn of the assistant message at i
ResultsFor(list, i, id) ==
    {j \in (i + 1)..(NextTurn(list, i) - 1) :
        list[j].role = "toolResult" /\ list[j].toolCallId = id}

ToolCallInvariant(list) ==
    \A i \in DOMAIN list :
        list[i].role = "assistant" =>
            \A b \in DOMAIN list[i].content :
                IsToolCall(list[i].content[b]) =>
                    Cardinality(ResultsFor(list, i, list[i].content[b].id)) = 1

\* a history as a conversation produces it: every tool result answers a call
\* of the assistant message that opens its turn, each call at most once
ValidHistory(list) ==
    \A j \in DOMAIN list :
        list[j].role = "toolResult" =>
            \E i \in 1..(j - 1) :
                /\ list[i].role = "assistant"
                /\ NextTurn(list, i) > j
                /\ \E b \in DOMAIN list[i].content : list[i].content[b].id = list[j].toolCallId
                /\ Cardinality(ResultsFor(list, i, list[j].toolCallId)) = 1

\* C5: the output of transformMessages on a valid history satisfies the
\* tool-call invariant: every tool call of an assistant message kept in the
\* output has exactly one result with its id before the next assistant or
\* user message or the end of the list.
C5_OutputSatisfiesToolCallInvariant ==
    (transformed # <<>> /\ ValidHistory(messages))
        => ToolCallInvariant(transformed[1])

NumSynthetic(list) == Cardinality({i \in DOMAIN list : IsSynthetic(list[i])})

C33_SyntheticResultAtEveryBoundary ==
    transformed # <<>> =>
        LET out == transformed[1] IN
        \A i \in DOMAIN out :
            out[i].role = "assistant" =>
                /\ \A b \in DOMAIN out[i].content :
                      IsToolCall(out[i].content[b]) =>
                          ResultsFor(out, i, out[i].content[b].id) # {}
                /\ \A j \in (i + 1)..(NextTurn(out, i) - 1) :
                      IsSynthetic(out[j]) =>
                          \E b \in DOMAIN out[i].content :
                              /\ out[i].content[b].id = out[j].toolCallId
                              /\ out[i].content[b].name = out[j].toolName

\* the nearest assistant message of list before position j, or 0
PrecedingAssistant(list, j) ==
    LET earlier == {i \in 1..(j - 1) : list[i].role = "assistant"}
    IN  IF earlier = {} THEN 0 ELSE CHOOSE i \in earlier : \A k \in earlier : i >= k

\* C34: stage 1 never splits a call/result pair: when the toolCallId of a
\* tool result of the input is the id of a tool call of the nearest
\* assistant message before it, the result and that call have equal ids
\* after stage 1.
C34_StageOneKeepsPairsTogether ==
    transformed # <<>> =>
        LET stage1 == NormalizeAssistantContent(messages, TargetModel, normalizer, NoMap) IN
        \A j \in DOMAIN messages :
            (messages[j].role = "toolResult" /\ PrecedingAssistant(messages, j) # 0) =>
                LET i == PrecedingAssistant(messages, j) IN
                \A b \in DOMAIN messages[i].content :
                    messages[i].content[b].id = messages[j].toolCallId =>
                        stage1[i].content[b].id = stage1[j].toolCallId

IsDropped(msg) == msg.role = "assistant" /\ msg.stopReason \in {"error", "aborted"}

NotSynthetic(msg) == ~IsSynthetic(msg)

\* the positions of messages that stage 2 keeps, and the k-th of them
KeptPositions == {i \in DOMAIN messages : ~IsDropped(messages[i])}
KeptPosition(k) ==
    CHOOSE i \in KeptPositions : Cardinality({j \in KeptPositions : j < i}) = k - 1

\* C7: with a normalizer f, in the output without the inserted synthetic
\* results, every assistant message of another model has each tool-call id
\* replaced by f(id), and every tool result that follows an assistant message
\* of another model holding a call with the result's toolCallId carries
\* f(toolCallId).
C7_IdRemapPropagates ==
    (transformed # <<>> /\ normalizer.given) =>
        LET out == SelectSeq(transformed[1], NotSynthetic) IN
        /\ Len(out) = Cardinality(KeptPositions)
        /\ \A k \in DOMAIN out :
             LET i == KeptPosition(k)
                 msg == messages[i]
             IN  /\ (msg.role = "assistant" /\ ~IsSameModel(msg)) =>
                        /\ out[k].role = "assistant"
                        /\ Len(out[k].content) = Len(msg.content)
                        /\ \A b \in DOMAIN msg.content :
                             out[k].content[b].id = normalizer.fn[msg.content[b].id]
                 /\ (/\ msg.role = "toolResult"
                     /\ \E j \in 1..(i - 1) :
                          /\ messages[j].role = "assistant"
                          /\ ~IsSameModel(messages[j])
                          /\ \E b \in DOMAIN messages[j].content :
                               messages[j].content[b].id = msg.toolCallId) =>
                        /\ out[k].role = "toolResult"
                        /\ out[k].toolCallId = normalizer.fn[msg.toolCallId]

\* the call "orig" of another model and its result both end up "norm-orig"
C7_Witness ==
    /\ messages = <<AssistantMessage(OtherModel, "toolUse", <<ToolCall("orig")>>),
                    ToolResultMessage("orig", "search", "ok", FALSE)>>
    /\ normalizer.given
    /\ normalizer.fn["orig"] = "norm-orig"
    /\ transformed # <<>>
    /\ transformed[1][1].content[1].id = "norm-orig"
    /\ transformed[1][2].toolCallId = "norm-orig"

-----------------------------------------------------------------------------
(* Properties of the provider stream functions *)

\* the last event the stream accepted
LastAccepted == accepted[Len(accepted)]

DoneEvents == {i \in DOMAIN accepted : accepted[i].type = "done"}

C4_DoneOnlyForStopLengthToolUse ==
    /\ \A i \in DoneEvents :
        /\ accepted[i].reason \in {"stop", "length", "toolUse"}
        /\ accepted[i].payload.stopReason = accepted[i].reason
        /\ output.stopReason = accepted[i].reason
    /\ (cpc = "ended" /\ output.stopReason \in {"error", "aborted"}) =>
        /\ accepted # <<>>
        /\ LastAccepted.type = "error"
        /\ LastAccepted.reason = output.stopReason
        /\ LastAccepted.payload = output
        /\ DoneEvents = {}

\* a wire stop reason that maps to error (a refusal) ended the call, without
\* abort or exception, in an error event
C4_Witness ==
    /\ cpc = "ended"
    /\ adapter = "anthropic"
    /\ ~aborted
    /\ failures = <<>>
    /\ output.stopReason = "error"
    /\ output.errorMessage = "An unknown error occurred"
    /\ LastAccepted.type = "error"
    /\ DoneEvents = {}

\* C10: when the signal was already aborted as the stream function called
\* executeWithRetry, the operation is invoked zero times and the call ends
\* in an error event of reason aborted.
C10_AbortedSignalSkipsOperation ==
    (cpc = "ended" /\ abortedAtEntry /\ adapter # "openai-responses") =>
        /\ opCalls = 0
        /\ LastAccepted.type = "error"
        /\ LastAccepted.reason = "aborted"

\* C11: a call with a signal invokes its request operation at most once, also
\* when that attempt failed with a retryable error; only a call without a
\* signal invokes it again, and at most three times in all.
C11_SignalMeansOneAttempt ==
    /\ hasSignal => opCalls <= 1
    /\ opCalls <= 3
    /\ (hasSignal /\ failures # <<>>) => rpc \in {"threw", "operation"} /\ delays = <<>>

\* a call with a signal whose only attempt hit a rate limit and which ended
C11_Witness ==
    /\ cpc = "ended"
    /\ hasSignal
    /\ ~aborted
    /\ failures = <<[kind |-> "Error", message |-> "rate limit exceeded", code |-> ""]>>
    /\ opCalls = 1
    /\ output.errorMessage = "rate limit exceeded"

\* C12: in every step that ends a call while the signal is aborted, be it
\* the terminal transition after the wire loop or the catch block after a
\* thrown error, the terminal event is an error event of reason aborted whose
\* message has stopReason aborted, and the final result is that message.
C12_AbortedTakesPriority ==
    [][(cpc # "ended" /\ cpc' = "ended" /\ signalAborted) =>
          /\ LastAccepted'.type = "error"
          /\ LastAccepted'.reason = "aborted"
          /\ LastAccepted'.payload.stopReason = "aborted"
          /\ output'.stopReason = "aborted"
          /\ finalResult' = <<output'>>
          /\ DoneEvents' = {}]_vars

\* a call aborted after the wire had delivered a stop reason that maps to
\* length, and whose stream then completed without any exception
C12_Witness ==
    /\ cpc = "ended"
    /\ aborted
    /\ ~abortedAtEntry
    /\ failures = <<>>
    /\ wireCount > 0
    /\ output.errorMessage = "Request was aborted"
    /\ LastAccepted.reason = "aborted"

\* C13: an onPayload hook that throws is ignored: no error event carries its
\* exception, and the call that ended has sent its request.
C13_ThrowingOnPayloadIgnored ==
    /\ \A i \in DOMAIN accepted :
         accepted[i].type = "error" => accepted[i].payload.errorMessage # "onPayload failed"
    /\ (cpc = "ended" /\ output.errorMessage = "onPayload failed") => opCalls >= 1

-----------------------------------------------------------------------------
(* Properties of the EventStream: history, final result, timeout, views *)

\* the last n elements of seq, all of it when it is shorter
LastN(seq, n) == IF Len(seq) > n THEN SubSeq(seq, Len(seq) - n + 1, Len(seq)) ELSE seq

\* C14: with historyLimit L > 0 getHistory() is the last min(n, L) of the n
\* accepted events in push order; with no limit it is every accepted event.
C14_HistoryIsLastAccepted ==
    /\ historyLimit > 0 => getHistory = LastN(accepted, historyLimit)
    /\ historyLimit > 0 => Len(getHistory) <= historyLimit
    /\ historyLimit = 0 => getHistory = accepted

\* limit 2 and three accepted events: the first one has been evicted
C14_Witness ==
    /\ historyLimit = 2
    /\ Len(accepted) = 3
    /\ getHistory = <<accepted[2], accepted[3]>>

\* the completing events among the accepted ones
CompletingEvents == {i \in DOMAIN accepted : isComplete(accepted[i])}

\* C15: once a completing event has been accepted, result() is resolved with
\* extractResult of that event, the first and only one accepted; and a
\* resolved final result is never changed by a later push, end() or
\* end(otherResult).
C15_FinalResultSingleAssignment ==
    /\ [](\A i \in CompletingEvents :
            /\ finalResult = <<extractResult(accepted[i])>>
            /\ CompletingEvents = {i})
    /\ [][finalResult # <<>> => finalResult' = finalResult]_vars

\* a done event resolved the result; a later push and end(otherResult) came
C15_Witness ==
    /\ ended
    /\ \E i \in CompletingEvents :
         /\ accepted[i].type = "done"
         /\ finalResult = <<extractResult(accepted[i])>>
         /\ finalResult # <<Message(0)>>
    /\ pushCount > Len(accepted)

\* C16: the step in which the timer of resultWithTimeout fires rejects the
\* returned promise with the timeout error and leaves the stream as it was:
\* done flag, queue, history, pending final result, waiters and iterators;
\* and after it a completing event that is accepted still resolves result()
\* and the events still reach the iterator in push order.
C16_TimeoutLeavesStreamUnchanged ==
    /\ [][(timer = "armed" /\ timer' = "fired") =>
            /\ timedResult' = <<[state |-> "rejected", value |-> <<TimeoutError>>,
                                 notified |-> FALSE]>>
            /\ UNCHANGED <<queue, waiting, done, finalResult, history, iter, handed,
                           yielded, accepted, ended>>]_vars
    /\ []((timedResult # <<>> /\ timer = "fired") =>
            /\ timedResult[1].state = "rejected"
            /\ \A i \in CompletingEvents : finalResult = <<extractResult(accepted[i])>>
            /\ yielded[1] \o InFlight(1) \o queue = accepted)

\* after the timeout a done event was pushed, resolved result() and was
\* yielded by the iterator
C16_Witness ==
    /\ timer = "fired"
    /\ timedResult[1].state = "rejected"
    /\ ~ended
    /\ accepted # <<>>
    /\ accepted[Len(accepted)].type = "done"
    /\ finalResult = <<extractResult(accepted[Len(accepted)])>>
    /\ yielded[1] = accepted
    /\ timedResult[1].notified

\* the events iterator c has taken from the stream: those its iteration has
\* yielded and the one a resolved waiter promise still carries
Taken(c) == yielded[c] \o InFlight(c)

Range(seq) == {seq[i] : i \in DOMAIN seq}

\* seq holds events in push order, none twice
InPushOrder(seq) == \A i \in DOMAIN seq, j \in DOMAIN seq : i < j => seq[i].seq < seq[j].seq

RECURSIVE MapSeq(_)
MapSeq(seq) == IF seq = <<>> THEN <<>> ELSE <<mapper(Head(seq))>> \o MapSeq(Tail(seq))

\* C17: whatever mix of direct iterators, filter views and map views pulls
\* from one stream, every accepted event is in exactly one place: still in
\* the queue, or taken by exactly one iterator; no event is taken twice;
\* each iterator takes events in push order; and a view has yielded exactly
\* the events it took, those its predicate accepts or each one mapped.
C17_ViewsShareQueueWithoutDuplicates ==
    /\ \A i \in DOMAIN accepted :
         Cardinality({c \in Iterators : accepted[i] \in Range(Taken(c))})
           + (IF accepted[i] \in Range(queue) THEN 1 ELSE 0) = 1
    /\ InPushOrder(queue)
    /\ \A c \in Iterators :
         /\ InPushOrder(Taken(c))
         /\ Range(Taken(c)) \subseteq Range(accepted)
         /\ viewYielded[c] = CASE view[c] = "direct" -> yielded[c]
                                [] view[c] = "filter" -> SelectSeq(yielded[c], predicate)
                                [] view[c] = "map" -> MapSeq(yielded[c])

\* a filter view and a map view over one stream of three events: the filter
\* view took two of them and yielded the one its predicate accepts, the map
\* view took the third
C17_Witness ==
    \E f \in Iterators, m \in Iterators :
        /\ view[f] = "filter"
        /\ view[m] = "map"
        /\ Len(accepted) = 3
        /\ Len(yielded[f]) = 2
        /\ Len(viewYielded[f]) = 1
        /\ Len(viewYielded[m]) = 1
        /\ queue = <<>>

\* the fallback a result carries: options.fallbackValue, or {} when the
\* option is absent or null
FallbackOf(options) ==
    IF options.fallbackValue \in {<<>>, <<JsonNull>>} THEN EmptyObject
    ELSE options.fallbackValue[1]

\* the text the parsers are given: the input, trimmed unless trimInput is false
EffectiveText ==
    IF parseInput = <<>> THEN <<>>
    ELSE IF parseOptions.trimInput = <<FALSE>> THEN parseInput[1]
    ELSE trim(parseInput[1])

\* the input is undefined, empty or all white space
IsBlankInput ==
    parseInput = <<>> \/ \A i \in DOMAIN parseInput[1] : IsWhiteSpace(parseInput[1][i])

\* the five cases of the result, the first one taken when noInput holds
ParseCases(noInput) ==
    parseResult # <<>> =>
        LET r == parseResult[1]
            strict == JSONparse(EffectiveText)
        IN  /\ DOMAIN r = {"value", "parsed", "usedPartialParser", "error"}
            /\ IF noInput
               THEN r.value = FallbackOf(parseOptions) /\ ~r.parsed /\ ~r.usedPartialParser
               ELSE IF strict.ok
               THEN r.value = strict.value /\ r.parsed /\ ~r.usedPartialParser
               ELSE IF parseOptions.allowPartial = <<FALSE>>
               THEN /\ r.value = FallbackOf(parseOptions)
                    /\ ~r.parsed
                    /\ ~r.usedPartialParser
                    /\ r.error # <<>>
               ELSE IF partialOutcome.ok
               THEN r.parsed /\ r.usedPartialParser
               ELSE /\ r.value = FallbackOf(parseOptions)
                    /\ ~r.parsed
                    /\ r.usedPartialParser
                    /\ r.error # <<>>

\* C18 as stated: parseStreamingJsonWithDiagnostics returns a result in every
\* case, and an undefined, empty or blank input always gives the fallback
\* with parsed = false and usedPartialParser = false.  Violated: with
\* trimInput false a blank input is handed to the parsers.
C18_BlankInputAlwaysFallback == ParseCases(IsBlankInput)

\* C18, amended: the first case is an input that is undefined or empty after
\* the trimming the options ask for (a blank input only when trimInput is not
\* false); the four cases of strict and tolerant parsing are as stated.
C18_ParseCases == ParseCases(EffectiveText = <<>>)

\* a blank input with trimInput false went through both parsers
C18_Witness ==
    /\ parseResult # <<>>
    /\ parseInput = <<<<WhiteSpace, WhiteSpace>>>>
    /\ parseOptions.trimInput = <<FALSE>>
    /\ parseOptions.allowPartial = <<>>
    /\ parseOptions.fallbackValue = <<CustomFallback>>
    /\ parseResult[1] = [value |-> CustomFallback, parsed |-> FALSE,
                         usedPartialParser |-> TRUE, error |-> <<"malformed">>]

\* C19: in every state of a registry, get(api) returns a provider exactly
\* when an entry for api exists and is enabled, and then that entry's
\* provider; list() is the providers of the enabled entries and list(true)
\* those of all entries, in insertion order; no api has two entries.
C19_GetAndListFollowEnabled ==
    /\ \A api \in Apis :
         LET entries == {i \in DOMAIN registry : registry[i].provider.api = api}
         IN  /\ Cardinality(entries) <= 1
             /\ get(registry, api) # <<>>
                  <=> \E i \in entries : registry[i].metadata.enabled
             /\ \A i \in entries :
                  registry[i].metadata.enabled => get(registry, api) = <<registry[i].provider>>
    /\ getApiProviders(registry, FALSE)
         = providersOf(SelectSeq(registry, LAMBDA e : e.metadata.enabled))
    /\ getApiProviders(registry, TRUE) = providersOf(registry)
    /\ Len(getApiProviders(registry, TRUE)) = Len(registry)

\* two entries, the first disabled again after a provider of one source was
\* unregistered: get hides it, list() holds one provider, list(true) two
C19_Witness ==
    /\ Len(registry) = 2
    /\ ~registry[1].metadata.enabled
    /\ registry[2].metadata.enabled
    /\ registry[1].metadata.updatedAt > registry[1].metadata.registeredAt
    /\ get(registry, registry[1].provider.api) = <<>>
    /\ get(registry, registry[2].provider.api) = <<registry[2].provider>>
    /\ Len(getApiProviders(registry, FALSE)) = 1
    /\ Len(getApiProviders(registry, TRUE)) = 2

\* C38: registering a provider for an api that already has an entry replaces
\* that entry where it stands: the registry keeps its length and its other
\* entries, the entry keeps the registeredAt of the first registration, and
\* its provider, sourceId, version and enabled flag are those of the new call
\* (enabled true when the call gives none), so that get(api) returns the new
\* provider unless the new call disables it.
C38_ReRegisterReplacesInPlace ==
    \A provider \in ApiProviders, options \in RegisterApiProviderOptions :
        \A i \in DOMAIN registry :
            registry[i].provider.api = provider.api =>
                LET after == register(registry, provider, options, now)
                    enabled == options.enabled # <<FALSE>>
                IN  /\ Len(after) = Len(registry)
                    /\ \A j \in DOMAIN registry : j # i => after[j] = registry[j]
                    /\ after[i].metadata.registeredAt = registry[i].metadata.registeredAt
                    /\ after[i].metadata.updatedAt = now
                    /\ after[i].metadata.sourceId = options.sourceId
                    /\ after[i].metadata.version = options.version
                    /\ after[i].metadata.enabled = enabled
                    /\ after[i].provider
                         = [api |-> provider.api,
                            stream |-> wrapStream(provider.api, provider.stream),
                            streamSimple |->
                                wrapStreamSimple(provider.api, provider.streamSimple)]
                    /\ get(after, provider.api)
                         = IF enabled THEN <<after[i].provider>> ELSE <<>>

\* the first of two entries was registered by one source with a version at
\* time 0 and is disabled; at time 1 another implementation is registered
\* for its api with no options: the entry stays first, is enabled, has lost
\* sourceId and version, keeps registeredAt 0, and get returns the new provider
C38_Witness ==
    /\ Len(registry) = 2
    /\ now = 1
    /\ registry[1].metadata.registeredAt = 0
    /\ ~registry[1].metadata.enabled
    /\ registry[1].metadata.sourceId = <<"src-a">>
    /\ registry[1].metadata.version = <<"ai-refactor-v1">>
    /\ registry[1].provider.stream.wraps = <<"mock1", "stream">>
    /\ get(registry, registry[1].provider.api) = <<>>
    /\ LET provider == [api |-> registry[1].provider.api,
                        stream |-> <<"mock2", "stream">>,
                        streamSimple |-> <<"mock2", "streamSimple">>]
           after == register(registry, provider,
                             [sourceId |-> <<>>, version |-> <<>>, enabled |-> <<>>], now)
       IN  /\ provider \in ApiProviders
           /\ after[1].metadata.registeredAt = 0
           /\ after[1].metadata.updatedAt = 1
           /\ after[1].metadata.enabled
           /\ after[1].metadata.sourceId = <<>>
           /\ get(after, provider.api) = <<after[1].provider>>
           /\ after[1].provider.stream.wraps = <<"mock2", "stream">>

\* C20: a call unregisterBySource(s) leaves in the registry exactly the
\* entries whose sourceId is not s, those without a sourceId among them, each
\* one as it was (provider, enabled flag, metadata) and in the same order.
C20_UnregisterBySourceFrame ==
    [][lastUnregistered' # <<>> =>
        registry' = SelectSeq(registry,
                              LAMBDA e : e.metadata.sourceId # lastUnregistered')]_vars

\* after unregisterBySource("src-a") a disabled entry without a sourceId is
\* left, registered before the clock advanced
C20_Witness ==
    /\ lastUnregistered = <<"src-a">>
    /\ Len(registry) = 1
    /\ registry[1].metadata.sourceId = <<>>
    /\ ~registry[1].metadata.enabled
    /\ registry[1].metadata.registeredAt < now

\* C21: register is given no model and wraps both functions of the provider
\* with the provider's api; a call of a registered provider's stream or
\* streamSimple throws the
\* mismatch error, and calls nothing, exactly when the model's api is not
\* the api the provider was registered under; otherwise it calls the
\* function that was registered for that api.
C21_MismatchThrowsAtCallTime ==
    /\ [](\A i \in DOMAIN registry :
            /\ registry[i].provider.stream.api = registry[i].provider.api
            /\ registry[i].provider.streamSimple.api = registry[i].provider.api)
    /\ [](invoked # <<>> =>
            LET r == invoked[1]
            IN  IF r.model.api \in Apis /\ r.called # <<>>
                THEN /\ ~r.threw
                     /\ r.called[1][2] \in {"stream", "streamSimple"}
                ELSE /\ r.threw
                     /\ r.called = <<>>
                     /\ r.message[1] = "Mismatched api:"
                     /\ r.message[2] = r.model.api
                     /\ r.message[2] # r.message[4])
    /\ [][invoked' # invoked =>
            \E api \in Apis :
                /\ get(registry, api) # <<>>
                /\ invoked'[1].threw <=> invoked'[1].model.api # api
                /\ invoked'[1].called \in {<<>>, <<get(registry, api)[1].stream.wraps>>,
                                            <<get(registry, api)[1].streamSimple.wraps>>}]_vars

\* the provider registered for test-a was called with a model of test-b and
\* threw, while a provider for test-b is registered and enabled
C21_Witness ==
    /\ invoked # <<>>
    /\ invoked[1].threw
    /\ invoked[1].called = <<>>
    /\ invoked[1].model.api = "test-b"
    /\ invoked[1].message = <<"Mismatched api:", "test-b", "expected", "test-a">>
    /\ get(registry, "test-b") # <<>>

\* the error message matches an entry of the overflow pattern table
MatchesPatternTable(message) ==
    /\ message.errorMessage # <<>>
    /\ \E i \in DOMAIN OVERFLOW_PATTERN_CONFIG :
          test(OVERFLOW_PATTERN_CONFIG[i], message.errorMessage[1])

\* C22: isContextOverflow(message, contextWindow) is true exactly when
\* stopReason is error and errorMessage matches an entry of the pattern
\* table, or stopReason is stop, contextWindow is given and usage.input +
\* usage.cacheRead > contextWindow.  Violated: an error message such as
\* "429 (no body)" matches no entry of the table and gives true.
C22_OverflowIffTableOrUsage ==
    fnResult # <<>> =>
        LET message == fnArgs.message
            contextWindow == fnArgs.contextWindow
        IN  fnResult[1] <=>
                \/ message.stopReason = "error" /\ MatchesPatternTable(message)
                \/ /\ message.stopReason = "stop"
                   /\ contextWindow # <<>>
                   /\ message.usage.input + message.usage.cacheRead > contextWindow[1]

\* C24: under the default policy with maxAttempts >= 2, a first failure with
\* a service-unavailable error is absorbed like a rate-limit, timeout or
\* network failure: executeWithRetry does not throw after it, and when the
\* next invocation succeeds the operation was invoked twice.  Violated: the
\* error is classified unknown and thrown after the first invocation.
C24_ServiceUnavailableAbsorbed ==
    (/\ policy.shouldRetry = "absent"
     /\ policy.maxAttempts >= 2
     /\ failures = <<Error("Service Unavailable")>>)
    => /\ rpc # "threw"
       /\ thrown = <<>>
       /\ rpc = "returned" => opCalls = 2

\* the retryable failures among those seen so far that were not the last
\* allowed attempt
DelayedFailures ==
    {k \in DOMAIN failures :
        k < policy.maxAttempts /\
        IF policy.shouldRetry = "absent"
        THEN normalizeProviderError(failures[k]).code \in {"rate_limit", "timeout", "network"}
        ELSE shouldRetry(policy.shouldRetry, failures[k], k)}

\* C25: the k-th delay follows the k-th failed attempt and is
\* min(baseDelayMs * 2^(k-1), maxDelayMs), uncapped when maxDelayMs is
\* absent; there is one delay per retryable failure before the last allowed
\* attempt and none after a success, after the last allowed attempt or after
\* a non-retryable failure.
C25_BackoffIsCappedExponential ==
    /\ \A k \in DOMAIN delays :
         LET exponential == policy.baseDelayMs * 2 ^ (k - 1)
         IN  /\ k \in DelayedFailures
             /\ delays[k] = IF policy.maxDelayMs = 0 THEN exponential
                            ELSE IF exponential < policy.maxDelayMs THEN exponential
                            ELSE policy.maxDelayMs
    /\ rpc # "operation" => Len(delays) = Cardinality(DelayedFailures)
    /\ rpc = "operation" => Len(delays) = opCalls - 1
    /\ rpc = "returned" => Len(delays) = opCalls - 1 /\ Len(failures) = opCalls - 1
    /\ rpc = "threw" /\ failures # <<>> =>
         Len(delays) = Len(failures) - (IF Len(failures) \in DelayedFailures THEN 0 ELSE 1)

\* two failed attempts of three, delays 250 and then 400 (500 capped),
\* and a third attempt that succeeded
C25_Witness ==
    /\ rpc = "returned"
    /\ policy = [maxAttempts |-> 3, baseDelayMs |-> 250, maxDelayMs |-> 400,
                 shouldRetry |-> "absent"]
    /\ Len(failures) = 2
    /\ opCalls = 3
    /\ delays = <<250, 400>>

\* C26: once error(msg) has been called, whatever setStopReason, setUsage and
\* complete calls follow, the stop reason is error in the manager and in the
\* output, isComplete is true, and output.errorMessage changes only in a new
\* error() call.  Violated: setStopReason after error() overwrites both stop
\* reasons.
C26_ErrorIsFinal ==
    /\ [](mgr[1].output.errorMessage # <<>> =>
            /\ mgr[1]._stopReason = "error"
            /\ mgr[1].output.stopReason = "error"
            /\ mgr[1]._isComplete)
    /\ [][(mgr[1].output.errorMessage # <<>> /\ mgr'[1].lastCall # "error") =>
            mgr'[1].output.errorMessage = mgr[1].output.errorMessage]_vars

-----------------------------------------------------------------------------
(* Properties of the Agent *)

\* C39: at most one run loop of an Agent executes at a time: a prompt() or
\* continue() call made while an earlier call's loop has not settled, by an
\* outside caller or by the listener during that run, throws "already
\* processing" and starts no loop.
C39_AtMostOneRunLoop ==
    /\ [](Cardinality(agent.loops) <= 1)
    /\ [][(agent'.made > agent.made /\ agent.loops # {}) =>
            /\ agent'.thrown = <<"already processing">>
            /\ Running(agent') \subseteq Running(agent)]_vars

\* C40: in the state a prompt() or continue() call that ran the loop settles
\* in, isStreaming is false, streamMessage is null, pendingToolCalls is
\* empty, and no promise that waitForIdle() returned is left unresolved, so
\* that a waitForIdle() made now resolves as well.
C40_SettledCallLeavesAgentIdle ==
    [][(Running(agent) \ Running(agent') # {}) =>
            /\ ~agent'.isStreaming
            /\ agent'.streamMessage = "null"
            /\ agent'.pendingToolCalls = {}
            /\ agent'.awaited = {}
            /\ agent'.runningPrompt = <<>>]_vars

====
